---- MODULE Spec2Model ----
(***************************************************************************)
(* Verification model of the slotted-page storage engine: the Page         *)
(* (src/src/page/page.cpp), the DiskManager, the FreeSpaceMap and the      *)
(* PageManager coordinator (src/src/storage).                              *)
(*                                                                         *)
(* Representation.  A page buffer is PAGE_SIZE bytes.  The bytes after the *)
(* header are held run-length encoded (a sequence of runs [b, n], adjacent *)
(* runs never sharing a byte value), so memcpy of a few thousand bytes is  *)
(* one run.  The slot directory at the tail of the buffer is held as the   *)
(* sequence `slots` of the slot entries that were ever written (entry N    *)
(* is slots[N+1]); entries at or above slot_count are the stale bytes the  *)
(* buffer still contains.  The CRC32 is modelled as an injective digest of *)
(* exactly the bytes the code feeds to it.  fragmented_bytes_ (size_t) is  *)
(* held as the signed representative of its residue modulo 2^64: a         *)
(* negative value x stands for 2^64 + x.                                   *)
(***************************************************************************)
EXTENDS Integers, Sequences, FiniteSets, TLC

\* ------------------------------------------------------------------------
\* Program constants
\* ------------------------------------------------------------------------
PAGE_SIZE == 8192
HEADER_SIZE == 40
SLOT_ENTRY_SIZE == 8
INVALID_PAGE_ID == 0
INVALID_SLOT_ID == 65535
SLOT_VALID == 1
SLOT_FORWARDED == 2
MAX_CATEGORY == 255
MAX_CACHE_SIZE == 100
DEFAULT_MAX_HOPS == 10
UINT16_MOD == 65536

\* ------------------------------------------------------------------------
\* Bounds of the model
\* ------------------------------------------------------------------------
\* number of page-level operations applied to the single page of PageSpec
MaxPageOps == 6
\* number of coordinator operations in one behaviour of Spec
MaxOps == 5
\* number of page ids the block device hands out
MaxPages == 3

\* ------------------------------------------------------------------------
\* Byte strings (run-length encoded buffers)
\* ------------------------------------------------------------------------
Run(b, n) == [b |-> b, n |-> n]

RECURSIVE BLen(_)
BLen(s) == IF s = <<>> THEN 0 ELSE Head(s).n + BLen(Tail(s))

BCat(s, t) ==
  IF s = <<>> THEN t
  ELSE IF t = <<>> THEN s
  ELSE IF s[Len(s)].b = t[1].b
       THEN SubSeq(s, 1, Len(s) - 1)
              \o <<Run(t[1].b, s[Len(s)].n + t[1].n)>>
              \o Tail(t)
       ELSE s \o t

RECURSIVE BTake(_, _)
BTake(s, k) ==
  IF k <= 0 \/ s = <<>> THEN <<>>
  ELSE IF Head(s).n <= k
       THEN <<Head(s)>> \o BTake(Tail(s), k - Head(s).n)
       ELSE <<Run(Head(s).b, k)>>

RECURSIVE BDrop(_, _)
BDrop(s, k) ==
  IF k <= 0 \/ s = <<>> THEN s
  ELSE IF Head(s).n <= k
       THEN BDrop(Tail(s), k - Head(s).n)
       ELSE <<Run(Head(s).b, Head(s).n - k)>> \o Tail(s)

\* the len bytes at [off, off+len)
BSlice(s, off, len) == BTake(BDrop(s, off), len)

\* memcpy(buf + off, t, |t|)
BWrite(s, off, t) ==
  BCat(BCat(BTake(s, off), t), BDrop(s, off + BLen(t)))

\* ------------------------------------------------------------------------
\* Slot entries and flags
\* ------------------------------------------------------------------------
HasFlag(flags, bit) == (flags \div bit) % 2 = 1
SetFlag(flags, bit) == IF HasFlag(flags, bit) THEN flags ELSE flags + bit
ClearFlag(flags, bit) == IF HasFlag(flags, bit) THEN flags - bit ELSE flags

SlotEntry(offset, length, flags, next_ptr) ==
  [offset |-> offset, length |-> length, flags |-> flags, next_ptr |-> next_ptr]

ZeroSlot == SlotEntry(0, 0, 0, <<0, 0, 0>>)

TupleId(page_id, slot_id) == [page_id |-> page_id, slot_id |-> slot_id]

\* a caller's null pointer (no byte has the value -1)
NullData == << Run(-1, 0) >>

\* ------------------------------------------------------------------------
\* Page
\* ------------------------------------------------------------------------
\* the bytes of the buffer from the end of the header to PAGE_SIZE, as the
\* data bytes and the slot entries stored at the tail
ComputeChecksum(p) ==
  << p.page_id, p.free_start, p.free_end, p.slot_count, 0, p.data, p.slots >>

VerifyChecksum(p) == p.checksum = ComputeChecksum(p)

CreateNew ==
  LET p0 == [page_id |-> 0,
             free_start |-> HEADER_SIZE,
             free_end |-> PAGE_SIZE,
             slot_count |-> 0,
             checksum |-> 0,
             deleted_tuple_count_ |-> 0,
             fragmented_bytes_ |-> 0,
             is_dirty_ |-> TRUE,
             data |-> <<Run(0, PAGE_SIZE - HEADER_SIZE)>>,
             slots |-> <<>>]
  IN [p0 EXCEPT !.checksum = ComputeChecksum(p0)]

SetPageId(p, page_id) == [p EXCEPT !.page_id = page_id % UINT16_MOD]

\* the entry stored at PAGE_SIZE - (slot_id+1)*8; bytes never written are 0
GetSlotEntry(p, slot_id) ==
  IF slot_id + 1 <= Len(p.slots) THEN p.slots[slot_id + 1] ELSE ZeroSlot

\* store an entry at slot_id, zero-filling the directory up to it
PutSlotEntry(p, slot_id, e) ==
  LET n == IF slot_id + 1 > Len(p.slots) THEN slot_id + 1 ELSE Len(p.slots)
  IN [p EXCEPT !.slots =
        [i \in 1..n |-> IF i = slot_id + 1 THEN e
                        ELSE IF i <= Len(p.slots) THEN p.slots[i]
                        ELSE ZeroSlot]]

IsSlotValid(p, slot_id) ==
  /\ slot_id < p.slot_count
  /\ HasFlag(GetSlotEntry(p, slot_id).flags, SLOT_VALID)

IsSlotForwarded(p, slot_id) ==
  /\ slot_id < p.slot_count
  /\ HasFlag(GetSlotEntry(p, slot_id).flags, SLOT_FORWARDED)

GetForwardingPointer(p, slot_id) ==
  IF slot_id >= p.slot_count THEN TupleId(0, 0)
  ELSE LET e == GetSlotEntry(p, slot_id)
       IN TupleId(e.next_ptr[1] + e.next_ptr[2] * 256, e.next_ptr[3])

SetForwardingPointer(p, slot_id, target_page_id, target_slot_id) ==
  IF slot_id >= p.slot_count THEN p
  ELSE LET e == GetSlotEntry(p, slot_id)
       IN PutSlotEntry(p, slot_id,
            [e EXCEPT !.next_ptr = << target_page_id % 256,
                                      (target_page_id \div 256) % 256,
                                      target_slot_id % 256 >>,
                      !.flags = SetFlag(e.flags, SLOT_FORWARDED)])

GetAvailableFreeSpace(p) ==
  IF p.free_end < p.free_start THEN 0 ELSE p.free_end - p.free_start

\* faulty variant of FindDeletedSlot: the highest-numbered deleted slot wins
FindDeletedSlot_Highest(p) ==
  LET inv == {s \in 0..(p.slot_count - 1) : ~IsSlotValid(p, s)}
  IN IF inv = {} THEN INVALID_SLOT_ID
     ELSE CHOOSE s \in inv : \A t \in inv : s >= t

\* lowest-numbered slot below slot_count whose VALID bit is clear
FindDeletedSlot(p) ==
  LET inv == {s \in 0..(p.slot_count - 1) : ~IsSlotValid(p, s)}
  IN IF inv = {} THEN INVALID_SLOT_ID
     ELSE CHOOSE s \in inv : \A t \in inv : s <= t

\* faulty variant of AddSlot: the new entry is stored without the VALID flag
AddSlot_NoValid(p, offset, length) ==
  LET new_slot_id == p.slot_count
      new_slot_offset == PAGE_SIZE - (new_slot_id + 1) * SLOT_ENTRY_SIZE
  IN IF new_slot_offset <= p.free_start
     THEN [p |-> p, slot |-> INVALID_SLOT_ID]
     ELSE [p |-> [PutSlotEntry(p, new_slot_id,
                               SlotEntry(offset, length, 0, <<0, 0, 0>>))
                    EXCEPT !.slot_count = p.slot_count + 1,
                           !.free_end = new_slot_offset],
           slot |-> new_slot_id]

\* result: [p |-> page after the call, slot |-> new slot id or INVALID_SLOT_ID]
AddSlot(p, offset, length) ==
  LET new_slot_id == p.slot_count
      new_slot_offset == PAGE_SIZE - (new_slot_id + 1) * SLOT_ENTRY_SIZE
  IN IF new_slot_offset <= p.free_start
     THEN [p |-> p, slot |-> INVALID_SLOT_ID]
     ELSE [p |-> [PutSlotEntry(p, new_slot_id,
                               SlotEntry(offset, length, SLOT_VALID, <<0, 0, 0>>))
                    EXCEPT !.slot_count = p.slot_count + 1,
                           !.free_end = new_slot_offset],
           slot |-> new_slot_id]

\* faulty variant of PageInsertTuple: the slot is allocated before the free
\* space is checked (and deleted slots are not reused)
PageInsertTuple_SlotFirst(p, tuple_data, tuple_size) ==
  IF tuple_data = NullData \/ tuple_size = 0
  THEN [p |-> p, slot |-> INVALID_SLOT_ID]
  ELSE
    LET added == AddSlot(p, p.free_start, tuple_size)
    IN IF added.slot = INVALID_SLOT_ID
          \/ GetAvailableFreeSpace(added.p) < tuple_size
       THEN [p |-> added.p, slot |-> INVALID_SLOT_ID]
       ELSE
         LET p2 == [added.p EXCEPT
                      !.data = BWrite(added.p.data, p.free_start - HEADER_SIZE,
                                      BTake(tuple_data, tuple_size)),
                      !.free_start = p.free_start + tuple_size]
         IN [p |-> [p2 EXCEPT !.checksum = ComputeChecksum(p2)],
             slot |-> added.slot]

\* variant: a tuple stored in a reused slot is written where the deleted
\* tuple was
PageInsertTuple_InPlaceReuse(p, tuple_data, tuple_size) ==
  IF tuple_data = NullData \/ tuple_size = 0
  THEN [p |-> p, slot |-> INVALID_SLOT_ID]
  ELSE
    LET found == FindDeletedSlot(p)
        required_space == IF found # INVALID_SLOT_ID THEN tuple_size
                          ELSE tuple_size + SLOT_ENTRY_SIZE
        tuple_offset == IF found # INVALID_SLOT_ID
                        THEN GetSlotEntry(p, found).offset
                        ELSE p.free_start
        bytes == BTake(tuple_data, tuple_size)
    IN IF GetAvailableFreeSpace(p) < required_space
       THEN [p |-> p, slot |-> INVALID_SLOT_ID]
       ELSE
         LET added == AddSlot(p, tuple_offset, tuple_size)
             old_length == GetSlotEntry(p, found).length
             reused ==
               [PutSlotEntry(p, found,
                   SlotEntry(tuple_offset, tuple_size, SLOT_VALID, <<0, 0, 0>>))
                 EXCEPT !.deleted_tuple_count_ =
                           (p.deleted_tuple_count_ + UINT16_MOD - 1) % UINT16_MOD,
                        !.fragmented_bytes_ = p.fragmented_bytes_ - old_length]
             slot_id == IF found = INVALID_SLOT_ID THEN added.slot ELSE found
             p1 == IF found = INVALID_SLOT_ID THEN added.p ELSE reused
         IN IF slot_id = INVALID_SLOT_ID
            THEN [p |-> p, slot |-> INVALID_SLOT_ID]
            ELSE
              LET p2 == [p1 EXCEPT
                           !.data = BWrite(p1.data, tuple_offset - HEADER_SIZE, bytes),
                           !.free_start = p1.free_start + tuple_size]
              IN [p |-> [p2 EXCEPT !.checksum = ComputeChecksum(p2)],
                  slot |-> slot_id]

PageInsertTuple(p, tuple_data, tuple_size) ==
  IF tuple_data = NullData \/ tuple_size = 0
  THEN [p |-> p, slot |-> INVALID_SLOT_ID]
  ELSE
    LET found == FindDeletedSlot(p)
        required_space == IF found # INVALID_SLOT_ID THEN tuple_size
                          ELSE tuple_size + SLOT_ENTRY_SIZE
        tuple_offset == p.free_start
        bytes == BTake(tuple_data, tuple_size)
    IN IF GetAvailableFreeSpace(p) < required_space
       THEN [p |-> p, slot |-> INVALID_SLOT_ID]
       ELSE
         LET added == AddSlot(p, tuple_offset, tuple_size)
             old_length == GetSlotEntry(p, found).length
             reused ==
               [PutSlotEntry(p, found,
                   SlotEntry(tuple_offset, tuple_size, SLOT_VALID, <<0, 0, 0>>))
                 EXCEPT !.deleted_tuple_count_ =
                           (p.deleted_tuple_count_ + UINT16_MOD - 1) % UINT16_MOD,
                        !.fragmented_bytes_ = p.fragmented_bytes_ - old_length]
             slot_id == IF found = INVALID_SLOT_ID THEN added.slot ELSE found
             p1 == IF found = INVALID_SLOT_ID THEN added.p ELSE reused
         IN IF slot_id = INVALID_SLOT_ID
            THEN [p |-> p, slot |-> INVALID_SLOT_ID]
            ELSE
              LET p2 == [p1 EXCEPT
                           !.data = BWrite(p1.data, tuple_offset - HEADER_SIZE, bytes),
                           !.free_start = p1.free_start + tuple_size]
              IN [p |-> [p2 EXCEPT !.checksum = ComputeChecksum(p2)],
                  slot |-> slot_id]

\* size_t comparison on the signed representative: a negative representative
\* is a value just below 2^64
SizeGe(x, c) == x < 0 \/ x >= c

RecomputeFragmentationStats(p) ==
  LET inv == {s \in 0..(p.slot_count - 1) :
                ~HasFlag(GetSlotEntry(p, s).flags, SLOT_VALID)}
      RECURSIVE SumLen(_)
      SumLen(S) == IF S = {} THEN 0
                   ELSE LET s == CHOOSE s \in S : TRUE
                        IN GetSlotEntry(p, s).length + SumLen(S \ {s})
  IN [p EXCEPT !.deleted_tuple_count_ = Cardinality(inv) % UINT16_MOD,
               !.fragmented_bytes_ = SumLen(inv)]

\* result: [p |-> page after the call, code |-> 0 on success]
\* faulty variant of PageDeleteTuple: the VALID bit is not tested first
PageDeleteTuple_NoValidCheck(p, slot_id) ==
  IF slot_id >= p.slot_count THEN [p |-> p, code |-> -1]
  ELSE LET e == GetSlotEntry(p, slot_id)
           p1 == [PutSlotEntry(p, slot_id,
                     [e EXCEPT !.flags = ClearFlag(e.flags, SLOT_VALID)])
                   EXCEPT !.deleted_tuple_count_ =
                             (p.deleted_tuple_count_ + 1) % UINT16_MOD,
                          !.fragmented_bytes_ = p.fragmented_bytes_ + e.length,
                          !.is_dirty_ = TRUE]
       IN [p |-> [p1 EXCEPT !.checksum = ComputeChecksum(p1)], code |-> 0]

PageDeleteTuple(p, slot_id) ==
  IF slot_id >= p.slot_count THEN [p |-> p, code |-> -1]
  ELSE LET e == GetSlotEntry(p, slot_id)
       IN IF ~HasFlag(e.flags, SLOT_VALID) THEN [p |-> p, code |-> -2]
          ELSE LET p1 == [PutSlotEntry(p, slot_id,
                             [e EXCEPT !.flags = ClearFlag(e.flags, SLOT_VALID)])
                           EXCEPT !.deleted_tuple_count_ =
                                     (p.deleted_tuple_count_ + 1) % UINT16_MOD,
                                  !.fragmented_bytes_ =
                                     p.fragmented_bytes_ + e.length,
                                  !.is_dirty_ = TRUE]
               IN [p |-> [p1 EXCEPT !.checksum = ComputeChecksum(p1)],
                   code |-> 0]

\* variant: the third test asks for 100 fragmented bytes instead of 100
\* bytes of available plus fragmented space
ShouldCompact_FragmentedOnly(p) ==
  IF p.deleted_tuple_count_ = 0 THEN FALSE
  ELSE
    LET used_space == p.free_start - HEADER_SIZE
        available == p.free_end - p.free_start
    IN \/ /\ used_space > 0
          /\ \/ p.fragmented_bytes_ < 0
             \/ (p.fragmented_bytes_ * 100) \div used_space >= 50
       \/ p.deleted_tuple_count_ * 2 >= p.slot_count
       \/ /\ ~SizeGe(available, 100)
          /\ SizeGe(p.fragmented_bytes_, 100)

ShouldCompact(p) ==
  IF p.deleted_tuple_count_ = 0 THEN FALSE
  ELSE
    LET used_space == p.free_start - HEADER_SIZE
        available == p.free_end - p.free_start
        potentially_available == available + p.fragmented_bytes_
    IN \/ /\ used_space > 0
          /\ \/ p.fragmented_bytes_ < 0
             \/ (p.fragmented_bytes_ * 100) \div used_space >= 50
       \/ p.deleted_tuple_count_ * 2 >= p.slot_count
       \/ /\ ~SizeGe(available, 100)
          /\ SizeGe(potentially_available, 100)

\* the TupleInfo list of CompactPage: valid slots in ascending slot-id order
ValidTuples(p) ==
  LET RECURSIVE Collect(_, _)
      \* the entries for slots lo..hi, gathered by halves
      Collect(lo, hi) ==
        IF lo > hi THEN <<>>
        ELSE IF lo = hi
        THEN LET e == GetSlotEntry(p, lo)
             IN IF HasFlag(e.flags, SLOT_VALID)
                THEN << [original_slot_id |-> lo, offset |-> e.offset,
                         length |-> e.length] >>
                ELSE <<>>
        ELSE LET mid == (lo + hi) \div 2
             IN Collect(lo, mid) \o Collect(mid + 1, hi)
  IN Collect(0, p.slot_count - 1)

CompactPage(p) ==
  IF p.deleted_tuple_count_ = 0 THEN p
  ELSE IF p.slot_count = p.deleted_tuple_count_
  THEN LET p1 == [p EXCEPT !.free_start = HEADER_SIZE,
                           !.slot_count = 0,
                           !.deleted_tuple_count_ = 0,
                           !.fragmented_bytes_ = 0]
       IN [p1 EXCEPT !.checksum = ComputeChecksum(p1)]
  ELSE
    LET valid_tuples == ValidTuples(p)
        \* temp_buffer: the bytes of tuples lo..hi of the list, back to back
        RECURSIVE Pack(_, _)
        Pack(lo, hi) ==
          IF lo > hi THEN <<>>
          ELSE IF lo = hi
          THEN BSlice(p.data, valid_tuples[lo].offset - HEADER_SIZE,
                      valid_tuples[lo].length)
          ELSE LET mid == (lo + hi) \div 2
               IN BCat(Pack(lo, mid), Pack(mid + 1, hi))
        \* new_offset when the loop reaches tuple k of the list
        RECURSIVE Packed(_, _)
        Packed(lo, hi) ==
          IF lo > hi THEN 0
          ELSE IF lo = hi THEN valid_tuples[lo].length
          ELSE LET mid == (lo + hi) \div 2
               IN Packed(lo, mid) + Packed(mid + 1, hi)
        packed == [buf |-> Pack(1, Len(valid_tuples)),
                   offs |-> [k \in 1..Len(valid_tuples) |->
                               HEADER_SIZE + Packed(1, k - 1)]]
        new_offset == Packed(1, Len(valid_tuples))
        NewOffsetOf(i) ==
          LET k == CHOOSE k \in 1..Len(valid_tuples) :
                     valid_tuples[k].original_slot_id = i
          IN packed.offs[k]
        newslots ==
          [j \in 1..Len(p.slots) |->
             IF j - 1 >= p.slot_count THEN p.slots[j]
             ELSE IF HasFlag(p.slots[j].flags, SLOT_VALID)
                  THEN [p.slots[j] EXCEPT !.offset = NewOffsetOf(j - 1)]
                  ELSE ZeroSlot]
        p1 == [p EXCEPT !.data = BWrite(p.data, 0, packed.buf),
                        !.slots = newslots,
                        !.free_start = HEADER_SIZE + new_offset,
                        !.deleted_tuple_count_ = 0,
                        !.fragmented_bytes_ = 0]
    IN [p1 EXCEPT !.checksum = ComputeChecksum(p1)]

\* faulty variant of UpdateTupleInPlace: the slot keeps its old length
UpdateTupleInPlace_KeepLength(p, slot_id, new_data, new_size) ==
  IF new_data = NullData THEN [p |-> p, code |-> -2]
  ELSE IF new_size = 0 THEN [p |-> p, code |-> -3]
  ELSE IF slot_id >= p.slot_count THEN [p |-> p, code |-> -4]
  ELSE
    LET e == GetSlotEntry(p, slot_id)
    IN IF ~HasFlag(e.flags, SLOT_VALID) THEN [p |-> p, code |-> -6]
       ELSE IF HasFlag(e.flags, SLOT_FORWARDED) THEN [p |-> p, code |-> -7]
       ELSE IF new_size > e.length THEN [p |-> p, code |-> -8]
       ELSE
         LET p1 == [p EXCEPT
                      !.data = BWrite(p.data, e.offset - HEADER_SIZE,
                                      BTake(new_data, new_size)),
                      !.is_dirty_ = TRUE]
         IN [p |-> [p1 EXCEPT !.checksum = ComputeChecksum(p1)], code |-> 0]

\* faulty variant of UpdateTupleInPlace: a longer tuple is written in place
UpdateTupleInPlace_NoSizeCheck(p, slot_id, new_data, new_size) ==
  IF new_data = NullData THEN [p |-> p, code |-> -2]
  ELSE IF new_size = 0 THEN [p |-> p, code |-> -3]
  ELSE IF slot_id >= p.slot_count THEN [p |-> p, code |-> -4]
  ELSE
    LET e == GetSlotEntry(p, slot_id)
    IN IF ~HasFlag(e.flags, SLOT_VALID) THEN [p |-> p, code |-> -6]
       ELSE IF HasFlag(e.flags, SLOT_FORWARDED) THEN [p |-> p, code |-> -7]
       ELSE
         LET p0 == PutSlotEntry(p, slot_id, [e EXCEPT !.length = new_size])
             p1 == [p0 EXCEPT
                      !.data = BWrite(p.data, e.offset - HEADER_SIZE,
                                      BTake(new_data, new_size)),
                      !.is_dirty_ = TRUE]
         IN [p |-> [p1 EXCEPT !.checksum = ComputeChecksum(p1)], code |-> 0]

\* result: [p |-> page after the call, code |-> 0 on success]
UpdateTupleInPlace(p, slot_id, new_data, new_size) ==
  IF new_data = NullData THEN [p |-> p, code |-> -2]
  ELSE IF new_size = 0 THEN [p |-> p, code |-> -3]
  ELSE IF slot_id >= p.slot_count THEN [p |-> p, code |-> -4]
  ELSE
    LET e == GetSlotEntry(p, slot_id)
    IN IF ~HasFlag(e.flags, SLOT_VALID) THEN [p |-> p, code |-> -6]
       ELSE IF HasFlag(e.flags, SLOT_FORWARDED) THEN [p |-> p, code |-> -7]
       ELSE IF new_size > e.length THEN [p |-> p, code |-> -8]
       ELSE
         LET p0 == PutSlotEntry(p, slot_id, [e EXCEPT !.length = new_size])
             p1 == [p0 EXCEPT
                      !.data = BWrite(p.data, e.offset - HEADER_SIZE,
                                      BTake(new_data, new_size)),
                      !.is_dirty_ = TRUE]
         IN [p |-> [p1 EXCEPT !.checksum = ComputeChecksum(p1)], code |-> 0]

\* result: [p |-> page after the call, code |-> 0 on success]
MarkSlotForwarded(p, slot_id, target_page_id, target_slot_id) ==
  IF slot_id >= p.slot_count THEN [p |-> p, code |-> -2]
  ELSE
    LET e == GetSlotEntry(p, slot_id)
    IN IF ~HasFlag(e.flags, SLOT_VALID) THEN [p |-> p, code |-> -4]
       ELSE
         LET old_length == e.length
             p0 == PutSlotEntry(p, slot_id, [e EXCEPT !.length = 0])
             p1 == SetForwardingPointer(p0, slot_id, target_page_id,
                                        target_slot_id)
             p2 == [p1 EXCEPT
                      !.fragmented_bytes_ = p.fragmented_bytes_ + old_length,
                      !.is_dirty_ = TRUE]
         IN [p |-> [p2 EXCEPT !.checksum = ComputeChecksum(p2)], code |-> 0]

\* faulty variant of FollowForwardingChain: one hop too many is followed
FollowForwardingChain_ExtraHop(p, slot_id, max_hops) ==
  IF p.slot_count = 0 \/ slot_id >= p.slot_count THEN TupleId(0, 0)
  ELSE
    LET RECURSIVE Walk(_, _, _, _)
        Walk(hop, current_page_id, current_slot_id, visited) ==
          IF hop > max_hops + 1 THEN TupleId(0, 0)
          ELSE IF <<current_page_id, current_slot_id>> \in visited
          THEN TupleId(0, 0)
          ELSE IF current_page_id # p.page_id
          THEN TupleId(current_page_id, current_slot_id)
          ELSE IF current_slot_id >= p.slot_count THEN TupleId(0, 0)
          ELSE
            LET e == GetSlotEntry(p, current_slot_id)
            IN IF ~HasFlag(e.flags, SLOT_VALID) THEN TupleId(0, 0)
               ELSE IF ~HasFlag(e.flags, SLOT_FORWARDED)
               THEN TupleId(current_page_id, current_slot_id)
               ELSE IF hop > max_hops THEN TupleId(0, 0)
               ELSE LET next == GetForwardingPointer(p, current_slot_id)
                    IN Walk(hop + 1, next.page_id, next.slot_id,
                            visited \cup {<<current_page_id, current_slot_id>>})
    IN Walk(0, p.page_id, slot_id, {})

\* the number of entries FollowForwardingChain pushes onto `visited`
ChainVisited(p, slot_id, max_hops) ==
  IF p.slot_count = 0 \/ slot_id >= p.slot_count THEN 0
  ELSE
    LET RECURSIVE Walk(_, _, _, _)
        Walk(hop, current_page_id, current_slot_id, visited) ==
          IF hop > max_hops THEN Cardinality(visited)
          ELSE IF <<current_page_id, current_slot_id>> \in visited
          THEN Cardinality(visited)
          ELSE IF \/ current_page_id # p.page_id
                  \/ current_slot_id >= p.slot_count
                  \/ ~HasFlag(GetSlotEntry(p, current_slot_id).flags, SLOT_VALID)
                  \/ ~HasFlag(GetSlotEntry(p, current_slot_id).flags,
                              SLOT_FORWARDED)
                  \/ hop >= max_hops
          THEN Cardinality(visited) + 1
          ELSE LET next == GetForwardingPointer(p, current_slot_id)
               IN Walk(hop + 1, next.page_id, next.slot_id,
                       visited \cup {<<current_page_id, current_slot_id>>})
    IN Walk(0, p.page_id, slot_id, {})

\* the page-local chain walker; TupleId(0, 0) is the failure result
FollowForwardingChain(p, slot_id, max_hops) ==
  IF p.slot_count = 0 \/ slot_id >= p.slot_count THEN TupleId(0, 0)
  ELSE
    LET RECURSIVE Walk(_, _, _, _)
        Walk(hop, current_page_id, current_slot_id, visited) ==
          IF hop > max_hops THEN TupleId(0, 0)
          ELSE IF <<current_page_id, current_slot_id>> \in visited
          THEN TupleId(0, 0)
          ELSE IF current_page_id # p.page_id
          THEN TupleId(current_page_id, current_slot_id)
          ELSE IF current_slot_id >= p.slot_count THEN TupleId(0, 0)
          ELSE
            LET e == GetSlotEntry(p, current_slot_id)
            IN IF ~HasFlag(e.flags, SLOT_VALID) THEN TupleId(0, 0)
               ELSE IF ~HasFlag(e.flags, SLOT_FORWARDED)
               THEN TupleId(current_page_id, current_slot_id)
               ELSE IF hop >= max_hops THEN TupleId(0, 0)
               ELSE LET next == GetForwardingPointer(p, current_slot_id)
                    IN Walk(hop + 1, next.page_id, next.slot_id,
                            visited \cup {<<current_page_id, current_slot_id>>})
    IN Walk(0, p.page_id, slot_id, {})

\* ------------------------------------------------------------------------
\* FreeSpaceMap
\* ------------------------------------------------------------------------
FSM_CATEGORIES_PER_PAGE == 8184

\* uint16_t conversion of an argument
U16(x) == ((x % UINT16_MOD) + UINT16_MOD) % UINT16_MOD

\* variant: the byte count is not clamped to PAGE_SIZE before scaling
BytesToCategory_NoClamp(available_bytes) ==
  ((available_bytes * MAX_CATEGORY) \div PAGE_SIZE) % (MAX_CATEGORY + 1)

BytesToCategory(available_bytes) ==
  LET b == IF available_bytes > PAGE_SIZE THEN PAGE_SIZE ELSE available_bytes
  IN (b * MAX_CATEGORY) \div PAGE_SIZE

CategoryToBytes(category) == (category * PAGE_SIZE) \div MAX_CATEGORY

\* fsm_cache_ is the sequence f.cache; the category of page id is cache[id+1]
EnsureCapacity(f, page_id) ==
  IF page_id >= Len(f.cache)
  THEN LET grown == IF page_id + 1 > Len(f.cache) * 2 THEN page_id + 1
                    ELSE Len(f.cache) * 2
           new_size == IF grown > FSM_CATEGORIES_PER_PAGE * 100
                       THEN page_id + 1 ELSE grown
       IN [f EXCEPT !.cache = [i \in 1..new_size |->
                                 IF i <= Len(f.cache) THEN f.cache[i] ELSE 0]]
  ELSE f

\* variant: page_count_ is not advanced past the updated page
UpdatePageFreeSpace_NoCount(f, page_id, available_bytes) ==
  LET f1 == EnsureCapacity(f, page_id)
      category == BytesToCategory(available_bytes)
  IN IF page_id < Len(f1.cache)
     THEN [f1 EXCEPT !.cache[page_id + 1] = category,
                     !.allocated = f1.allocated \cup {page_id},
                     !.is_dirty_ = TRUE]
     ELSE f1

UpdatePageFreeSpace(f, page_id, available_bytes) ==
  LET f1 == EnsureCapacity(f, page_id)
      category == BytesToCategory(available_bytes)
  IN IF page_id < Len(f1.cache)
     THEN [f1 EXCEPT !.cache[page_id + 1] = category,
                     !.allocated = f1.allocated \cup {page_id},
                     !.is_dirty_ = TRUE,
                     !.page_count = IF page_id >= f1.page_count
                                    THEN page_id + 1 ELSE f1.page_count]
     ELSE f1

\* the pages the scan of allocated_pages_ can return: the iteration order of
\* the unordered set is unspecified, so any qualifying page may come first
FsmFindPageWithSpace(f, required_bytes) ==
  LET min_category == BytesToCategory(required_bytes)
      hits == {pid \in f.allocated :
                 /\ pid < Len(f.cache)
                 /\ \/ f.cache[pid + 1] > min_category
                    \/ (f.cache[pid + 1] = min_category /\ f.cache[pid + 1] > 0)}
  IN IF hits = {} THEN {INVALID_PAGE_ID} ELSE hits

GetCategory(f, page_id) ==
  IF page_id \notin f.allocated THEN 0
  ELSE IF page_id < Len(f.cache) THEN f.cache[page_id + 1] ELSE 0

\* the file image WriteToDisk produces
WriteToDisk(f) ==
  [present |-> TRUE,
   page_count |-> f.page_count,
   allocated |-> f.allocated,
   cache |-> IF f.page_count > 0 /\ f.cache # <<>>
             THEN SubSeq(f.cache, 1, IF f.page_count < Len(f.cache)
                                     THEN f.page_count ELSE Len(f.cache))
             ELSE <<>>]

\* result: [f |-> map after the call, file |-> file after the call]
FsmFlush(f, file) ==
  IF ~f.is_dirty_ THEN [f |-> f, file |-> file]
  ELSE [f |-> [f EXCEPT !.is_dirty_ = FALSE], file |-> WriteToDisk(f)]

\* Initialize of a new FreeSpaceMap object on the file
FsmInitialize(file) ==
  IF ~file.present
  THEN [cache |-> <<>>, allocated |-> {}, page_count |-> 0, is_dirty_ |-> TRUE]
  ELSE IF file.allocated = {}
  THEN [cache |-> <<>>, allocated |-> {}, page_count |-> file.page_count,
        is_dirty_ |-> FALSE]
  ELSE IF Len(file.cache) < file.page_count
  THEN [cache |-> <<>>, allocated |-> {}, page_count |-> 0, is_dirty_ |-> TRUE]
  ELSE [cache |-> file.cache, allocated |-> file.allocated,
        page_count |-> file.page_count, is_dirty_ |-> FALSE]

\* ------------------------------------------------------------------------
\* DiskManager
\* ------------------------------------------------------------------------
\* the buffer after WritePage zeroed the runtime fields and set the checksum
WritePageImage(p) ==
  LET p1 == [p EXCEPT !.deleted_tuple_count_ = 0,
                      !.fragmented_bytes_ = 0,
                      !.is_dirty_ = FALSE]
  IN [p1 EXCEPT !.checksum = ComputeChecksum(p1)]

\* result: [ok |-> the read and the checksum verification succeeded, p |-> page]
ReadPage(d, page_id) ==
  IF page_id \notin DOMAIN d THEN [ok |-> FALSE, p |-> CreateNew]
  ELSE LET p1 == [RecomputeFragmentationStats(d[page_id])
                    EXCEPT !.is_dirty_ = FALSE]
       IN [ok |-> VerifyChecksum(p1), p |-> p1]

\* ------------------------------------------------------------------------
\* PageManager.  A world w is [cache, disk, next, fsm, file]; a handler maps
\* a world to the set of its possible outcomes.
\* ------------------------------------------------------------------------
PutCache(w, page_id, p) ==
  [w EXCEPT !.cache = [x \in DOMAIN w.cache \cup {page_id} |->
                         IF x = page_id THEN p ELSE w.cache[x]],
            !.peak = IF Cardinality(DOMAIN w.cache \cup {page_id}) > w.peak
                     THEN Cardinality(DOMAIN w.cache \cup {page_id})
                     ELSE w.peak]

\* the block device does not hold the contents page page_id has in the cache
Unwritten(w, page_id) ==
  \/ page_id \notin DOMAIN w.disk
  \/ w.disk[page_id] # WritePageImage(w.cache[page_id])

DropCache(w, page_id) ==
  [w EXCEPT !.cache = [x \in DOMAIN w.cache \ {page_id} |-> w.cache[x]],
            !.lost = IF page_id \in DOMAIN w.cache /\ Unwritten(w, page_id)
                     THEN w.lost \cup {page_id} ELSE w.lost]

\* result: [w, code]
FlushPage(w, page_id) ==
  IF page_id \notin DOMAIN w.cache THEN [w |-> w, code |-> 0]
  ELSE IF ~w.cache[page_id].is_dirty_ THEN [w |-> w, code |-> 0]
  ELSE LET img == WritePageImage(w.cache[page_id])
           w1 == PutCache(w, page_id, img)
       IN [w |-> [w1 EXCEPT !.disk = [x \in DOMAIN w.disk \cup {page_id} |->
                                        IF x = page_id THEN img ELSE w.disk[x]]],
           code |-> 0]

\* variant: eviction starts only once the cache is above MAX_CACHE_SIZE
EvictPageIfNeeded_Late(w) ==
  IF Cardinality(DOMAIN w.cache) <= MAX_CACHE_SIZE THEN {w}
  ELSE LET clean == {pid \in DOMAIN w.cache : ~w.cache[pid].is_dirty_}
       IN IF clean # {}
          THEN {DropCache(w, pid) : pid \in clean}
          ELSE {DropCache(FlushPage(w, pid).w, pid) : pid \in DOMAIN w.cache}

\* set of worlds after EvictPageIfNeeded: the victim is the first clean page
\* in the iteration order of the unordered map, else the first page
EvictPageIfNeeded(w) ==
  IF Cardinality(DOMAIN w.cache) < MAX_CACHE_SIZE THEN {w}
  ELSE LET clean == {pid \in DOMAIN w.cache : ~w.cache[pid].is_dirty_}
       IN IF clean # {}
          THEN {DropCache(w, pid) : pid \in clean}
          ELSE {DropCache(FlushPage(w, pid).w, pid) : pid \in DOMAIN w.cache}

\* variant: room is made in the cache before the page is read and verified
GetPage_EvictFirst(w, page_id) ==
  IF page_id \in DOMAIN w.cache THEN {[w |-> w, ok |-> TRUE]}
  ELSE LET r == ReadPage(w.disk, page_id)
       IN {IF r.ok THEN [w |-> PutCache(w1, page_id, r.p), ok |-> TRUE]
           ELSE [w |-> w1, ok |-> FALSE] : w1 \in EvictPageIfNeeded(w)}

\* set of [w, ok]: ok means the page is resident in w.cache afterwards
GetPage(w, page_id) ==
  IF page_id \in DOMAIN w.cache THEN {[w |-> w, ok |-> TRUE]}
  ELSE LET r == ReadPage(w.disk, page_id)
       IN IF ~r.ok THEN {[w |-> w, ok |-> FALSE]}
          ELSE {[w |-> PutCache(w1, page_id, r.p), ok |-> TRUE] :
                  w1 \in EvictPageIfNeeded(w)}

UpdateFSM(w, page_id) ==
  LET page == w.cache[page_id]
      free_space == U16(page.free_end - page.free_start)
  IN [w EXCEPT !.fsm = UpdatePageFreeSpace(w.fsm, page_id, free_space)]

\* set of [w, page_id]
AllocateNewPage(w) ==
  LET page_id == w.next
      new_page == SetPageId(CreateNew, page_id)
  IN {[w |-> UpdateFSM(PutCache([w1 EXCEPT !.next = w.next + 1],
                                page_id, new_page), page_id),
       page_id |-> page_id] : w1 \in EvictPageIfNeeded(w)}

\* set of [w, page_id]: FindPageWithSpace, then AllocateNewPage if none
FindOrAllocate(w, required_space) ==
  UNION { IF pid # INVALID_PAGE_ID THEN {[w |-> w, page_id |-> pid]}
          ELSE AllocateNewPage(w) :
          pid \in FsmFindPageWithSpace(w.fsm, required_space) }

InvalidTupleId == TupleId(0, INVALID_SLOT_ID)

\* variant: a page where the insert failed keeps its category
MarkPageFull_Skip(f, page_id) == f

\* fsm_->UpdatePageFreeSpace(page_id, 0) after a failed attempt
MarkPageFull(f, page_id) == UpdatePageFreeSpace(f, page_id, 0)

\* set of [w, tid, tried, why]: tried lists the pages of the attempts made,
\* why names the return statement taken
InsertTuple(w, tuple_data, tuple_size) ==
  IF \/ tuple_data = NullData
     \/ tuple_size = 0
     \/ tuple_size > PAGE_SIZE - HEADER_SIZE - SLOT_ENTRY_SIZE
  THEN {[w |-> w, tid |-> InvalidTupleId, tried |-> <<>>, why |-> "argument"]}
  ELSE
    LET required_space == U16(tuple_size + SLOT_ENTRY_SIZE)
        RECURSIVE Attempt(_, _, _)
        Attempt(w0, attempt, tried) ==
          IF attempt >= 3
          THEN {[w |-> w0, tid |-> InvalidTupleId, tried |-> tried,
                 why |-> "attempts"]}
          ELSE UNION {
            LET page_id == a.page_id
            IN UNION {
              IF ~g.ok THEN {[w |-> g.w, tid |-> InvalidTupleId,
                              tried |-> tried, why |-> "fetch"]}
              ELSE
                LET page == g.w.cache[page_id]
                    r1 == PageInsertTuple(page, tuple_data, tuple_size)
                    compacted == CompactPage(page)
                    r2 == PageInsertTuple(compacted, tuple_data, tuple_size)
                IN IF r1.slot # INVALID_SLOT_ID
                   THEN {[w |-> UpdateFSM(PutCache(g.w, page_id, r1.p), page_id),
                          tid |-> TupleId(page_id, r1.slot),
                          tried |-> Append(tried, page_id), why |-> "inserted"]}
                   ELSE IF ShouldCompact(page) /\ r2.slot # INVALID_SLOT_ID
                   THEN {[w |-> UpdateFSM(PutCache(g.w, page_id, r2.p), page_id),
                          tid |-> TupleId(page_id, r2.slot),
                          tried |-> Append(tried, page_id), why |-> "compacted"]}
                   ELSE
                     LET w1 == IF ShouldCompact(page)
                               THEN PutCache(g.w, page_id, r2.p) ELSE g.w
                     IN Attempt([w1 EXCEPT !.fsm = MarkPageFull(w1.fsm, page_id)],
                                attempt + 1, Append(tried, page_id))
              : g \in GetPage(a.w, page_id) }
            : a \in FindOrAllocate(w0, required_space) }
    IN Attempt(w, 0, <<>>)

\* set of [w, tid]; TupleId(0, 0) is the failure result
FollowForwardingChainFull(w, tuple_id) ==
  IF tuple_id.page_id = 0 \/ tuple_id.slot_id = INVALID_SLOT_ID
  THEN {[w |-> w, tid |-> TupleId(0, 0)]}
  ELSE {
    IF ~g.ok THEN [w |-> g.w, tid |-> TupleId(0, 0)]
    ELSE IF tuple_id.slot_id >= g.w.cache[tuple_id.page_id].slot_count
    THEN [w |-> g.w, tid |-> TupleId(0, 0)]
    ELSE [w |-> g.w,
          tid |-> FollowForwardingChain(g.w.cache[tuple_id.page_id],
                                        tuple_id.slot_id, DEFAULT_MAX_HOPS)]
    : g \in GetPage(w, tuple_id.page_id) }

\* result: [code, bytes]
GetTupleFromSlot(page, slot_id, buffer_size) ==
  IF ~IsSlotValid(page, slot_id) THEN [code |-> -2, bytes |-> <<>>]
  ELSE LET e == GetSlotEntry(page, slot_id)
       IN IF buffer_size < e.length THEN [code |-> -3, bytes |-> <<>>]
          ELSE [code |-> 0,
                bytes |-> BSlice(page.data, e.offset - HEADER_SIZE, e.length)]

\* set of [w, code, bytes]
GetTuple(w, tuple_id, buffer_size) ==
  IF buffer_size = 0 THEN {[w |-> w, code |-> -2, bytes |-> <<>>]}
  ELSE UNION {
    IF f.tid = TupleId(0, 0) THEN {[w |-> f.w, code |-> -3, bytes |-> <<>>]}
    ELSE { IF ~g.ok THEN [w |-> g.w, code |-> -4, bytes |-> <<>>]
           ELSE LET r == GetTupleFromSlot(g.w.cache[f.tid.page_id],
                                          f.tid.slot_id, buffer_size)
                IN [w |-> g.w, code |-> r.code, bytes |-> r.bytes]
           : g \in GetPage(f.w, f.tid.page_id) }
    : f \in FollowForwardingChainFull(w, tuple_id) }


\* free_end - free_start as read through a Page pointer whose page has been
\* erased from page_cache_: the memory is freed, any uint16_t may be read
DanglingFreeSpace == {0, PAGE_SIZE - HEADER_SIZE, UINT16_MOD - 1}

\* set of worlds after UpdateFSM(page_id, page) through a pointer obtained
\* earlier in the call
UpdateFSMHeld(w, page_id) ==
  IF page_id \in DOMAIN w.cache THEN {UpdateFSM(w, page_id)}
  ELSE {[w EXCEPT !.fsm = UpdatePageFreeSpace(w.fsm, page_id, free_space)] :
          free_space \in DanglingFreeSpace}

\* set of [w, code, path, evicted]; path names the branch that returned,
\* evicted the pages erased from the cache while the call held their pointer
UpdateTuple(w, tuple_id, new_data, new_size) ==
  IF new_data = NullData THEN {[w |-> w, code |-> -1, path |-> "args", evicted |-> {}]}
  ELSE IF new_size = 0 THEN {[w |-> w, code |-> -2, path |-> "args", evicted |-> {}]}
  ELSE UNION {
    IF f.tid = TupleId(0, 0) THEN {[w |-> f.w, code |-> -3, path |-> "chain", evicted |-> {}]}
    ELSE UNION {
      IF ~g.ok THEN {[w |-> g.w, code |-> -4, path |-> "page", evicted |-> {}]}
      ELSE
        LET current_page == g.w.cache[f.tid.page_id]
            result == UpdateTupleInPlace(current_page, f.tid.slot_id,
                                         new_data, new_size)
        IN IF result.code = 0
           THEN {[w |-> UpdateFSM(PutCache(g.w, f.tid.page_id, result.p),
                                  f.tid.page_id),
                  code |-> 0, path |-> "inplace", evicted |-> {}]}
           ELSE UNION {
             LET new_page_id == a.page_id
             IN UNION {
               IF ~n.ok THEN {[w |-> n.w, code |-> -6, path |-> "spill", evicted |-> {}]}
               ELSE
                 LET ins == PageInsertTuple(n.w.cache[new_page_id],
                                            new_data, new_size)
                     w2 == PutCache(n.w, new_page_id, ins.p)
                 IN IF ins.slot = INVALID_SLOT_ID
                    THEN {[w |-> n.w, code |-> -7, path |-> "spill", evicted |-> {}]}
                    ELSE UNION {
                      IF ~o.ok THEN {[w |-> o.w, code |-> -8, path |-> "spill",
                                      evicted |-> {new_page_id} \ DOMAIN o.w.cache]}
                      ELSE
                        LET fwd == MarkSlotForwarded(
                                     o.w.cache[tuple_id.page_id],
                                     tuple_id.slot_id, new_page_id, ins.slot)
                            w3 == PutCache(o.w, tuple_id.page_id, fwd.p)
                        IN IF fwd.code # 0
                           THEN {[w |-> o.w, code |-> -9, path |-> "spill",
                                  evicted |-> {new_page_id} \ DOMAIN o.w.cache]}
                           ELSE {[w |-> w4, code |-> 0, path |-> "spill",
                                  evicted |-> {new_page_id} \ DOMAIN o.w.cache] :
                                 w4 \in UpdateFSMHeld(
                                          UpdateFSM(w3, tuple_id.page_id),
                                          new_page_id)}
                      : o \in GetPage(w2, tuple_id.page_id) }
               : n \in GetPage(a.w, new_page_id) }
             : a \in FindOrAllocate(g.w, U16(new_size + SLOT_ENTRY_SIZE)) }
      : g \in GetPage(f.w, f.tid.page_id) }
    : f \in FollowForwardingChainFull(w, tuple_id) }

\* set of [w, code]
DeleteTuple(w, tuple_id) ==
  UNION {
    IF f.tid = TupleId(0, 0) THEN {[w |-> f.w, code |-> -1]}
    ELSE { IF ~g.ok THEN [w |-> g.w, code |-> -2]
           ELSE LET r == PageDeleteTuple(g.w.cache[f.tid.page_id], f.tid.slot_id)
                IN IF r.code # 0 THEN [w |-> g.w, code |-> r.code]
                   ELSE [w |-> UpdateFSM(PutCache(g.w, f.tid.page_id, r.p),
                                         f.tid.page_id),
                         code |-> 0]
           : g \in GetPage(f.w, f.tid.page_id) }
    : f \in FollowForwardingChainFull(w, tuple_id) }

\* result: [w, code]; every dirty page is written, then the map is flushed
\* FlushPage changes the cache entry and the disk image of its own page only,
\* so the loop over the dirty pages is taken page by page
FlushAllPagesInternal(w) ==
  LET dirty == {pid \in DOMAIN w.cache : w.cache[pid].is_dirty_}
      w1 == [w EXCEPT
               !.cache = [pid \in DOMAIN w.cache |->
                            IF pid \in dirty
                            THEN FlushPage(w, pid).w.cache[pid]
                            ELSE w.cache[pid]],
               !.disk = [pid \in DOMAIN w.disk \cup dirty |->
                           IF pid \in dirty
                           THEN FlushPage(w, pid).w.disk[pid]
                           ELSE w.disk[pid]]]
      fl == FsmFlush(w1.fsm, w1.file)
  IN [w |-> [w1 EXCEPT !.fsm = fl.f, !.file = fl.file], code |-> 0]

FlushAllPages(w) == FlushAllPagesInternal(w)

\* set of [w, code, path]
MgrCompactPage(w, page_id) ==
  { IF ~g.ok THEN [w |-> g.w, code |-> -1, path |-> "page"]
    ELSE IF ~ShouldCompact(g.w.cache[page_id])
    THEN [w |-> g.w, code |-> 0, path |-> "skipped"]
    ELSE [w |-> UpdateFSM(PutCache(g.w, page_id,
                                   CompactPage(g.w.cache[page_id])), page_id),
          code |-> 0, path |-> "compacted"]
    : g \in GetPage(w, page_id) }

ClearCache(w) ==
  LET w1 == FlushAllPagesInternal(w).w
  IN [w1 EXCEPT !.cache = <<>>,
                !.lost = w1.lost \cup
                         {pid \in DOMAIN w1.cache : Unwritten(w1, pid)}]

\* destruction of the PageManager, FreeSpaceMap and DiskManager objects and
\* construction of new ones on the same two files
Reopen(w) ==
  LET w1 == FlushAllPages(w).w
      fl == FsmFlush(w1.fsm, w1.file)
  IN [w1 EXCEPT !.cache = <<>>, !.file = fl.file,
                !.fsm = FsmInitialize(fl.file)]


\* ------------------------------------------------------------------------
\* State
\* ------------------------------------------------------------------------
VARIABLES
  \* PageSpec: one Page object driven directly through its public methods
  pg,             \* the page
  ppre,           \* the page before the last call
  pop,            \* the last call: name, arguments, result
  psteps,         \* number of calls made
  \* Spec: the coordinator with its block device and free-space map
  page_cache_,    \* PageManager::page_cache_ : page id -> Page
  cache_peak,     \* largest size page_cache_ had during the last call
  cache_lost,     \* pages the last call removed from page_cache_ unwritten
  disk,           \* data file: page id -> page image written by WritePage
  next_page_id_,  \* DiskManager::next_page_id_
  fsm,            \* FreeSpaceMap in memory
  fsm_file,       \* contents of the free-space-map file
  op,             \* the last coordinator call: name, arguments, result
  steps,          \* number of coordinator calls made
  expect,         \* tuple-id -> bytes last written (inserted, not deleted)
  \* FsmSpec: a FreeSpaceMap driven directly, and a second one opened later
  fsm_last,       \* page id -> available_bytes of the last UpdatePageFreeSpace
  fsm2,           \* a FreeSpaceMap constructed later on the same file
  \* DiskSpec and ThreadSpec: a DiskManager driven directly
  file_header_,   \* DiskManager::file_header_ (next_page_id, page_count_)
  db_file,        \* the FileHeader stored at offset 0 of the data file
  dm_ids,         \* page ids AllocatePage returned since the file was created
  metadata_mutex_, \* DiskManager::metadata_mutex_ : the holding thread or 0
  fsm_mutex_,     \* FreeSpaceMap::fsm_mutex_ : the holding thread or 0
  th_pc,          \* thread -> position in its AllocatePage call and its local
  th_ret,         \* thread -> the values its calls returned
  \* CoordSpec: several threads call into one PageManager
  cache_mutex_,   \* PageManager::cache_mutex_ : the holding thread or 0
  lin_world       \* the coordinator had the calls run one by one in lock order

pvars == << pg, ppre, pop, psteps >>
fvars == << fsm_last, fsm2 >>
dvars == << file_header_, db_file, dm_ids, metadata_mutex_, fsm_mutex_, th_pc, th_ret,
           cache_mutex_, lin_world >>
mvars == << page_cache_, cache_peak, cache_lost, disk, next_page_id_, fsm,
            fsm_file, op, steps, expect, fsm_last, fsm2,
            file_header_, db_file, dm_ids, metadata_mutex_, fsm_mutex_, th_pc, th_ret,
            cache_mutex_, lin_world >>
vars == << pg, ppre, pop, psteps,
           page_cache_, cache_peak, cache_lost, disk, next_page_id_, fsm,
           fsm_file, op, steps, expect, fsm_last, fsm2,
           file_header_, db_file, dm_ids, metadata_mutex_, fsm_mutex_, th_pc, th_ret,
           cache_mutex_, lin_world >>

\* ------------------------------------------------------------------------
\* PageSpec: sequences of page operations on one page
\* ------------------------------------------------------------------------
\* tuple payloads offered to the page: 3, 2 and 4060 bytes
PagePayloads ==
  { << Run(1, 3) >>, << Run(2, 1), Run(3, 1) >>, << Run(4, 4060) >> }

\* (data, size) arguments of Insert: the payloads, a null pointer, a zero size
PageInsertArgs ==
  { << d, BLen(d) >> : d \in PagePayloads }
    \cup { << NullData, 3 >>, << << Run(1, 3) >>, 0 >> }

\* forwarding targets offered to MarkForwarded: (page, slot)
PageForwardTargets == { << 0, 1 >>, << 7, 0 >> }

NoOp == [name |-> "none", slot |-> 0, data |-> <<>>, size |-> 0, res |-> 0,
         tpage |-> 0, tslot |-> 0]

PInit ==
  /\ pg = CreateNew
  /\ ppre = CreateNew
  /\ pop = NoOp
  /\ psteps = 0

PInsert ==
  /\ psteps < MaxPageOps
  /\ \E a \in PageInsertArgs :
       LET d == a[1]
           sz == a[2]
           r == PageInsertTuple(pg, d, sz)
       IN /\ pg' = r.p
          /\ pop' = [NoOp EXCEPT !.name = "Insert", !.data = d, !.size = sz,
                                 !.res = r.slot]
  /\ ppre' = pg
  /\ psteps' = psteps + 1
  /\ UNCHANGED mvars

PDelete ==
  /\ psteps < MaxPageOps
  /\ \E s \in 0..pg.slot_count :
       LET r == PageDeleteTuple(pg, s)
       IN /\ pg' = r.p
          /\ pop' = [NoOp EXCEPT !.name = "Delete", !.slot = s, !.res = r.code]
  /\ ppre' = pg
  /\ psteps' = psteps + 1
  /\ UNCHANGED mvars

PUpdateInPlace ==
  /\ psteps < MaxPageOps
  /\ \E s \in 0..pg.slot_count :
     \E d \in { << Run(5, 2) >>, << Run(6, 4) >> } :
       LET r == UpdateTupleInPlace(pg, s, d, BLen(d))
       IN /\ pg' = r.p
          /\ pop' = [NoOp EXCEPT !.name = "UpdateInPlace", !.slot = s,
                                 !.data = d, !.size = BLen(d), !.res = r.code]
  /\ ppre' = pg
  /\ psteps' = psteps + 1
  /\ UNCHANGED mvars

PMarkForwarded ==
  /\ psteps < MaxPageOps
  /\ \E s \in 0..pg.slot_count : \E t \in PageForwardTargets :
       LET tp == t[1]
           ts == t[2]
           r == MarkSlotForwarded(pg, s, tp, ts)
       IN /\ pg' = r.p
          /\ pop' = [NoOp EXCEPT !.name = "MarkForwarded", !.slot = s,
                                 !.tpage = tp, !.tslot = ts, !.res = r.code]
  /\ ppre' = pg
  /\ psteps' = psteps + 1
  /\ UNCHANGED mvars

PCompact ==
  /\ psteps < MaxPageOps
  /\ pg' = CompactPage(pg)
  /\ pop' = [NoOp EXCEPT !.name = "Compact"]
  /\ ppre' = pg
  /\ psteps' = psteps + 1
  /\ UNCHANGED mvars

PNext == PInsert \/ PDelete \/ PUpdateInPlace \/ PMarkForwarded \/ PCompact

\* ------------------------------------------------------------------------
\* Coordinator state after construction on new files
\* ------------------------------------------------------------------------
NoFile == [present |-> FALSE, page_count |-> 0, allocated |-> {}, cache |-> <<>>]

\* a FreeSpaceMap as its constructor leaves it, Initialize not yet called
NotConstructed == [cache |-> <<>>, allocated |-> {}, page_count |-> 0,
                   is_dirty_ |-> FALSE]

\* the coordinator constructed on new files
NewWorld == [cache |-> <<>>, disk |-> <<>>, next |-> 1,
             fsm |-> FsmInitialize(NoFile), file |-> NoFile, peak |-> 0,
             lost |-> {}]

\* FileHeader fields OpenDBFile writes into a file it creates
NewHeader == [next_page_id |-> 1, page_count_ |-> 0]

\* threads that call into one DiskManager
MaxThreads == 2
Threads == 1..MaxThreads

\* the DiskManager constructed on a file that did not exist, no call made
DMInit ==
  /\ file_header_ = NewHeader
  /\ db_file = NewHeader
  /\ dm_ids = <<>>
  /\ metadata_mutex_ = 0
  /\ fsm_mutex_ = 0
  /\ th_pc = [t \in Threads |-> [pc |-> "idle", new_page_id |-> 0]]
  /\ th_ret = [t \in Threads |-> <<>>]
  /\ cache_mutex_ = 0
  /\ lin_world = NewWorld

NoCall == [name |-> "none", prev |-> "none", tid |-> TupleId(0, 0),
           data |-> <<>>, code |-> 0, path |-> "none"]

MInit ==
  /\ page_cache_ = <<>>
  /\ cache_peak = 0
  /\ cache_lost = {}
  /\ disk = <<>>
  /\ next_page_id_ = 1
  /\ fsm = FsmInitialize(NoFile)
  /\ fsm_file = NoFile
  /\ op = NoCall
  /\ steps = 0
  /\ expect = <<>>
  /\ fsm_last = <<>>
  /\ fsm2 = NotConstructed
  /\ DMInit

Init == PInit /\ MInit

PageSpec == Init /\ [][PNext]_vars

\* ------------------------------------------------------------------------
\* Spec: sequences of coordinator calls
\* ------------------------------------------------------------------------
\* the current world and the assignment of a handler's outcome
W == [cache |-> page_cache_, disk |-> disk, next |-> next_page_id_,
      fsm |-> fsm, file |-> fsm_file,
      peak |-> Cardinality(DOMAIN page_cache_), lost |-> {}]

SetWorld(w) ==
  /\ page_cache_' = w.cache
  /\ cache_peak' = w.peak
  /\ cache_lost' = w.lost
  /\ disk' = w.disk
  /\ next_page_id_' = w.next
  /\ fsm' = w.fsm
  /\ fsm_file' = w.file

\* tuples offered to InsertTuple: 5, 3 and 5000 bytes
InsertPayloads ==
  { << Run(1, 5) >>, << Run(2, 1), Run(3, 2) >>, << Run(4, 5000) >> }

\* new versions offered to UpdateTuple: 3, 5001 and 8150 bytes
UpdatePayloads ==
  { << Run(5, 1), Run(8, 2) >>, << Run(6, 5001) >>, << Run(7, 8150) >> }

\* a caller's buffer large enough for any tuple
BigBuffer == PAGE_SIZE

Call(name, tid, data, code, path) ==
  [name |-> name, prev |-> op.name, tid |-> tid, data |-> data,
   code |-> code, path |-> path]

\* the ghost record of a tuple-id: live, the bytes last written, and whether
\* no InsertTuple ran since it was deleted
Ghost(live, data, quiet) == [live |-> live, data |-> data, quiet |-> quiet]

SetGhost(e, tid, g) ==
  [x \in DOMAIN e \cup {tid} |-> IF x = tid THEN g ELSE e[x]]

MInsert ==
  /\ steps < MaxOps
  /\ \E d \in InsertPayloads : \E out \in InsertTuple(W, d, BLen(d)) :
       /\ out.w.next <= MaxPages + 1
       /\ SetWorld(out.w)
       /\ op' = Call("Insert", out.tid, d,
                     IF out.tid.slot_id = INVALID_SLOT_ID THEN -1 ELSE 0, "none")
       /\ LET e1 == [x \in DOMAIN expect |-> [expect[x] EXCEPT !.quiet = FALSE]]
          IN expect' = IF out.tid.slot_id = INVALID_SLOT_ID THEN e1
                       ELSE SetGhost(e1, out.tid, Ghost(TRUE, d, FALSE))
  /\ steps' = steps + 1
  /\ UNCHANGED << pvars, fvars, dvars >>

MGet ==
  /\ steps < MaxOps
  /\ \E tid \in DOMAIN expect : \E out \in GetTuple(W, tid, BigBuffer) :
       /\ SetWorld(out.w)
       /\ op' = Call("Get", tid, out.bytes, out.code, "none")
  /\ steps' = steps + 1
  /\ UNCHANGED << expect, pvars, fvars, dvars >>

MUpdate ==
  /\ steps < MaxOps
  /\ \E tid \in DOMAIN expect : \E d \in UpdatePayloads :
     \E out \in UpdateTuple(W, tid, d, BLen(d)) :
       /\ out.w.next <= MaxPages + 1
       /\ SetWorld(out.w)
       /\ op' = Call("Update", tid, d, out.code, out.path)
       /\ expect' = IF out.code = 0 /\ expect[tid].live
                     THEN SetGhost(expect, tid, Ghost(TRUE, d, FALSE))
                     ELSE expect
  /\ steps' = steps + 1
  /\ UNCHANGED << pvars, fvars, dvars >>

MDelete ==
  /\ steps < MaxOps
  /\ \E tid \in DOMAIN expect : \E out \in DeleteTuple(W, tid) :
       /\ SetWorld(out.w)
       /\ op' = Call("Delete", tid, <<>>, out.code, "none")
       /\ expect' = IF out.code = 0
                     THEN SetGhost(expect, tid, Ghost(FALSE, <<>>, TRUE))
                     ELSE expect
  /\ steps' = steps + 1
  /\ UNCHANGED << pvars, fvars, dvars >>

MFlush ==
  /\ steps < MaxOps
  /\ LET out == FlushAllPages(W)
     IN /\ SetWorld(out.w)
        /\ op' = Call("Flush", TupleId(0, 0), <<>>, out.code, "none")
  /\ steps' = steps + 1
  /\ UNCHANGED << expect, pvars, fvars, dvars >>

MCompact ==
  /\ steps < MaxOps
  /\ \E pid \in 1..(next_page_id_ - 1) : \E out \in MgrCompactPage(W, pid) :
       /\ SetWorld(out.w)
       /\ op' = Call("Compact", TupleId(pid, 0), <<>>, out.code, out.path)
  /\ steps' = steps + 1
  /\ UNCHANGED << expect, pvars, fvars, dvars >>

MClearCache ==
  /\ steps < MaxOps
  /\ SetWorld(ClearCache(W))
  /\ op' = Call("ClearCache", TupleId(0, 0), <<>>, 0, "none")
  /\ steps' = steps + 1
  /\ UNCHANGED << expect, pvars, fvars, dvars >>

MReopen ==
  /\ steps < MaxOps
  /\ SetWorld(Reopen(W))
  /\ op' = Call("Reopen", TupleId(0, 0), <<>>, 0, "none")
  /\ steps' = steps + 1
  /\ UNCHANGED << expect, pvars, fvars, dvars >>

Next ==
  \/ MInsert \/ MGet \/ MUpdate \/ MDelete
  \/ MFlush \/ MCompact \/ MClearCache \/ MReopen

Spec == Init /\ [][Next]_vars

\* ------------------------------------------------------------------------
\* DenseSpec: the same calls, starting after DenseFill one-byte tuples were
\* inserted into the first page; DenseOps further calls are explored
\* ------------------------------------------------------------------------
DenseFill == 256

DenseOps == 3

DenseTuple == << Run(9, 1) >>

\* the page after n InsertTuple calls of one byte each into a fresh page 1:
\* tuple i lies at HEADER_SIZE + i and has slot i
DensePage(n) ==
  LET p0 == [SetPageId(CreateNew, 1) EXCEPT
               !.free_start = HEADER_SIZE + n,
               !.free_end = PAGE_SIZE - n * SLOT_ENTRY_SIZE,
               !.slot_count = n,
               !.data = IF n = 0 THEN @
                        ELSE << Run(9, n), Run(0, PAGE_SIZE - HEADER_SIZE - n) >>,
               !.slots = [i \in 1 .. n |->
                            SlotEntry(HEADER_SIZE + i - 1, 1, SLOT_VALID,
                                      <<0, 0, 0>>)]]
  IN IF n = 0 THEN p0 ELSE [p0 EXCEPT !.checksum = ComputeChecksum(p0)]

\* the coordinator after n such calls on a new database: AllocateNewPage
\* made page 1 and each call ended with UpdateFSM
DenseWorld(n) ==
  LET w0 == [cache |-> <<>>, disk |-> <<>>, next |-> 2,
             fsm |-> FsmInitialize(NoFile), file |-> NoFile, peak |-> 0,
             lost |-> {}]
  IN UpdateFSM(PutCache(w0, 1, DensePage(n)), 1)

DenseInit ==
  /\ page_cache_ = DenseWorld(DenseFill).cache
  /\ cache_peak = 1
  /\ cache_lost = {}
  /\ disk = <<>>
  /\ next_page_id_ = 2
  /\ fsm = DenseWorld(DenseFill).fsm
  /\ fsm_file = NoFile
  /\ op = [NoCall EXCEPT !.name = "Insert", !.prev = "Insert",
                         !.tid = TupleId(1, DenseFill - 1),
                         !.data = DenseTuple]
  /\ expect = SetGhost(<<>>, TupleId(1, DenseFill - 1),
                       Ghost(TRUE, DenseTuple, FALSE))
  /\ steps = MaxOps - DenseOps
  /\ fsm_last = <<>>
  /\ fsm2 = NotConstructed
  /\ DMInit
  /\ PInit

DenseSpec == DenseInit /\ [][Next]_vars

\* ------------------------------------------------------------------------
\* Page-level properties
\* ------------------------------------------------------------------------
SlotIds(p) == 0..(p.slot_count - 1)
ValidSlots(p) == {s \in SlotIds(p) : IsSlotValid(p, s)}
InvalidSlots(p) == {s \in SlotIds(p) : ~IsSlotValid(p, s)}

\* the tuple bytes a slot addresses
SlotBytes(p, s) ==
  BSlice(p.data, GetSlotEntry(p, s).offset - HEADER_SIZE, GetSlotEntry(p, s).length)

RECURSIVE SumLength(_, _)
SumLength(p, S) ==
  IF S = {} THEN 0
  ELSE LET s == CHOOSE s \in S : TRUE
       IN GetSlotEntry(p, s).length + SumLength(p, S \ {s})

\* what Compact promises for the page `before` turned into `after`
CompactPreserves(before, after) ==
  /\ after.slot_count = before.slot_count
  /\ \A s \in ValidSlots(before) :
       /\ IsSlotValid(after, s)
       /\ GetSlotEntry(after, s).length = GetSlotEntry(before, s).length
       /\ GetSlotEntry(after, s).flags = GetSlotEntry(before, s).flags
       /\ GetSlotEntry(after, s).next_ptr = GetSlotEntry(before, s).next_ptr
       /\ SlotBytes(after, s) = SlotBytes(before, s)
       /\ GetSlotEntry(after, s).offset =
            HEADER_SIZE + SumLength(before, {t \in ValidSlots(before) : t < s})
  /\ \A s \in InvalidSlots(before) : ~IsSlotValid(after, s)
  /\ after.deleted_tuple_count_ = 0
  /\ after.fragmented_bytes_ = 0

\* C6: Compact on a page with at least one deleted and one valid slot keeps
\* slot_count, keeps every valid slot valid at its slot-id with the same
\* length, flags, forwarding pointer and bytes, keeps deleted slots invalid,
\* zeroes both counters and packs the valid tuples from the header boundary
\* in ascending slot-id order.
C6_CompactPreservesSlotIds ==
  (pop.name = "Compact" /\ InvalidSlots(ppre) # {} /\ ValidSlots(ppre) # {})
    => CompactPreserves(ppre, pg)

\* C7: header_size <= free_start <= free_end <= PAGE_SIZE and
\* free_end = PAGE_SIZE - 8 * slot_count after any sequence of page
\* operations, the compaction of an all-deleted page included.
C7_PageLayout ==
  /\ HEADER_SIZE <= pg.free_start
  /\ pg.free_start <= pg.free_end
  /\ pg.free_end <= PAGE_SIZE
  /\ pg.free_end = PAGE_SIZE - SLOT_ENTRY_SIZE * pg.slot_count

ValidSlotsInData(p) ==
  /\ \A s \in ValidSlots(p) :
       /\ GetSlotEntry(p, s).offset >= HEADER_SIZE
       /\ GetSlotEntry(p, s).offset + GetSlotEntry(p, s).length <= p.free_start
  /\ \A s, t \in ValidSlots(p) :
       (s # t /\ GetSlotEntry(p, s).length > 0 /\ GetSlotEntry(p, t).length > 0)
         => \/ GetSlotEntry(p, s).offset + GetSlotEntry(p, s).length
                 <= GetSlotEntry(p, t).offset
            \/ GetSlotEntry(p, t).offset + GetSlotEntry(p, t).length
                 <= GetSlotEntry(p, s).offset

\* C9: the bytes of every VALID slot lie inside [header_size, free_start) and
\* the byte ranges of two distinct VALID slots of non-zero length are disjoint.
C9_ValidSlotsDisjointInData == ValidSlotsInData(pg)

\* a page holding at least two live tuples next to reclaimed space
C9_Witness ==
  /\ pop.name = "Compact"
  /\ Cardinality({s \in ValidSlots(pg) : GetSlotEntry(pg, s).length > 0}) >= 2
  /\ pg.free_start < ppre.free_start

\* C10: deleted_tuple_count equals the number of slots below slot_count whose
\* VALID bit is clear and fragmented_bytes equals the sum of their lengths.
C10_RuntimeCounters ==
  /\ pg.deleted_tuple_count_ = Cardinality(InvalidSlots(pg))
  /\ pg.fragmented_bytes_ = SumLength(pg, InvalidSlots(pg))

\* C8 (page part): the stored checksum verifies after every page operation
PageChecksumValid == VerifyChecksum(pg)

\* ------------------------------------------------------------------------
\* Coordinator-level properties
\* ------------------------------------------------------------------------
\* the world after the step
WNext == [cache |-> page_cache_', disk |-> disk', next |-> next_page_id_',
          fsm |-> fsm', file |-> fsm_file',
          peak |-> Cardinality(DOMAIN page_cache_'), lost |-> {}]

\* every possible GetTuple(tid) on world w succeeds and returns bytes
GetsExactly(w, tid, bytes, buffer_size) ==
  \A out \in GetTuple(w, tid, buffer_size) : out.code = 0 /\ out.bytes = bytes

\* every possible GetTuple(tid) on world w fails
GetFails(w, tid) ==
  \A out \in GetTuple(w, tid, BigBuffer) : out.code # 0

LiveTids == {t \in DOMAIN expect : expect[t].live}

\* C1: right after InsertTuple(data, size) returned a valid tuple-id T,
\* GetTuple(T) with a buffer of at least size bytes succeeds and returns
\* exactly the inserted bytes, whatever calls preceded the insert.
C1_InsertThenGet ==
  (op.name = "Insert" /\ op.code = 0)
    => /\ GetsExactly(W, op.tid, op.data, BLen(op.data))
       /\ GetsExactly(W, op.tid, op.data, BigBuffer)

\* an insert that reused the slot freed by the delete just before it
C1_Witness ==
  /\ op.name = "Insert" /\ op.code = 0 /\ op.prev = "Delete"
  /\ \E t \in DOMAIN expect : t # op.tid /\ expect[t].live
  /\ page_cache_[op.tid.page_id].slot_count > op.tid.slot_id + 1
  /\ GetsExactly(W, op.tid, op.data, BigBuffer)

\* C2: after FlushAllPages succeeded and the cache was then cleared, GetTuple
\* on every tuple-id inserted and not deleted returns the bytes last written.
C2_DurableAfterFlush ==
  (op.name = "ClearCache" /\ op.prev = "Flush")
    => \A t \in LiveTids : GetsExactly(W, t, expect[t].data, BigBuffer)

\* C3: once DeleteTuple(T) succeeded, GetTuple(T) fails, also after flushing,
\* dropping the cache and re-opening, as long as no InsertTuple ran since.
C3_DeletedStaysDeleted ==
  \A t \in DOMAIN expect :
    (~expect[t].live /\ expect[t].quiet) => GetFails(W, t)

\* T is live, holds x, and y is longer than x and fits in a page
SpillCase(w, tid, y) ==
  /\ tid \in LiveTids
  /\ BLen(y) <= PAGE_SIZE - HEADER_SIZE - SLOT_ENTRY_SIZE
  /\ \A out \in GetTuple(w, tid, BigBuffer) :
       out.code = 0 /\ BLen(out.bytes) < BLen(y)

\* T's own slot is VALID and FORWARDED with length 0
IsStub(w, tid) ==
  /\ tid.page_id \in DOMAIN w.cache
  /\ IsSlotValid(w.cache[tid.page_id], tid.slot_id)
  /\ IsSlotForwarded(w.cache[tid.page_id], tid.slot_id)
  /\ GetSlotEntry(w.cache[tid.page_id], tid.slot_id).length = 0

\* C4: when UpdateTuple(T, y) on a live T holding x, |y| > |x|, y fitting in a
\* page, returns success, GetTuple(T) returns exactly y and T's own slot is
\* VALID and FORWARDED with length 0, also when T was spilled before.
C4_UpdateSpill ==
  [][ (op'.name = "Update" /\ steps' = steps + 1 /\ op'.code = 0
         /\ SpillCase(W, op'.tid, op'.data))
        => /\ GetsExactly(WNext, op'.tid, op'.data, BigBuffer)
           /\ IsStub(WNext, op'.tid) ]_vars

\* C5: UpdateTuple(T, y) right after Insert(x) returned T, 1 <= |y| <= |x|,
\* succeeds in place without a forwarding pointer, the slot's length becomes
\* |y| and GetTuple(T) returns exactly y.
C5_UpdateInPlaceRoundTrip ==
  [][ (op.name = "Insert" /\ op.code = 0
         /\ op'.name = "Update" /\ steps' = steps + 1 /\ op'.tid = op.tid
         /\ BLen(op'.data) >= 1 /\ BLen(op'.data) <= BLen(op.data))
        => /\ op'.code = 0
           /\ op'.path = "inplace"
           /\ ~IsSlotForwarded(page_cache_'[op.tid.page_id], op.tid.slot_id)
           /\ GetSlotEntry(page_cache_'[op.tid.page_id], op.tid.slot_id).length
                = BLen(op'.data)
           /\ GetsExactly(WNext, op.tid, op'.data, BigBuffer) ]_vars

\* an in-place update that shortened a tuple directly after its insert
C5_Witness ==
  /\ op.name = "Update" /\ op.prev = "Insert" /\ op.path = "inplace"
  /\ op.code = 0
  /\ op.tid \in LiveTids
  /\ BLen(op.data) = 3
  /\ page_cache_[op.tid.page_id].free_start - HEADER_SIZE > 3
  /\ Cardinality(DOMAIN expect) = 1
  /\ GetsExactly(W, op.tid, op.data, BigBuffer)

\* C8: the stored checksum of the page verifies after every page operation
\* and the stored checksum of every cached page verifies between
\* coordinator operations.
C8_ChecksumVerifies ==
  /\ VerifyChecksum(pg)
  /\ \A pid \in DOMAIN page_cache_ : VerifyChecksum(page_cache_[pid])

\* ------------------------------------------------------------------------
\* Page-level properties: failed calls, slot reuse, fill
\* ------------------------------------------------------------------------
\* the page has less room than an Insert of tuple_size bytes needs
InsufficientSpace(p, tuple_size) ==
  GetAvailableFreeSpace(p) <
    (IF InvalidSlots(p) # {} THEN tuple_size ELSE tuple_size + SLOT_ENTRY_SIZE)

\* C11: a page Insert with null data, zero size or insufficient free space
\* returns the sentinel 65535, and every Insert that returns the sentinel
\* leaves header fields, slot directory, tuple bytes, runtime counters and
\* checksum as they were.
C11_FailedInsertUnchanged ==
  pop.name = "Insert" =>
    /\ (pop.data = NullData \/ pop.size = 0 \/ InsufficientSpace(ppre, pop.size))
          => pop.res = INVALID_SLOT_ID
    /\ pop.res = INVALID_SLOT_ID => pg = ppre

\* an Insert of real data refused for lack of room on a page holding tuples
C11_Witness ==
  /\ pop.name = "Insert" /\ pop.res = INVALID_SLOT_ID
  /\ pop.data # NullData /\ pop.size > 0
  /\ ValidSlots(ppre) # {}
  /\ InsufficientSpace(ppre, pop.size)
  /\ pg = ppre

\* C12: a successful Insert on a page with an invalid slot below slot_count
\* returns the lowest-numbered invalid slot-id and leaves slot_count and
\* free_end unchanged; with no invalid slot it returns the old slot_count
\* and increases slot_count by one.
C12_SlotReuse ==
  (pop.name = "Insert" /\ pop.res # INVALID_SLOT_ID) =>
    IF InvalidSlots(ppre) # {}
    THEN /\ pop.res \in InvalidSlots(ppre)
         /\ \A t \in InvalidSlots(ppre) : pop.res <= t
         /\ pg.slot_count = ppre.slot_count
         /\ pg.free_end = ppre.free_end
    ELSE /\ pop.res = ppre.slot_count
         /\ pg.slot_count = ppre.slot_count + 1

\* an Insert that had two deleted slots to choose from, above a live one
C12_Witness ==
  /\ pop.name = "Insert" /\ pop.res # INVALID_SLOT_ID
  /\ Cardinality(InvalidSlots(ppre)) >= 2
  /\ 0 \in ValidSlots(ppre)
  /\ pop.res = 1
  /\ IsSlotValid(pg, pop.res)

\* the code Delete returns for a slot-id at or above slot_count
DeleteOutOfRange(p) == PageDeleteTuple(p, p.slot_count).code

\* C13: Delete of a slot that is already deleted fails with a code distinct
\* from success and from the out-of-range error, and changes nothing:
\* deleted_tuple_count and fragmented_bytes are not incremented again.
C13_DoubleDeleteFails ==
  (pop.name = "Delete" /\ pop.slot \in InvalidSlots(ppre)) =>
    /\ pop.res # 0
    /\ pop.res # DeleteOutOfRange(ppre)
    /\ pg = ppre

\* a second Delete of a slot whose bytes are still counted as fragmented
C13_Witness ==
  /\ pop.name = "Delete" /\ pop.slot \in InvalidSlots(ppre)
  /\ GetSlotEntry(ppre, pop.slot).length > 0
  /\ ppre.deleted_tuple_count_ = 1
  /\ pg.deleted_tuple_count_ = 1
  /\ pg.fragmented_bytes_ = GetSlotEntry(ppre, pop.slot).length
  /\ pop.res = -2

\* ------------------------------------------------------------------------
\* FillSpec: a fresh page is filled with FillSize-byte tuples until an Insert
\* is refused; from then on one-byte Inserts are attempted as well
\* ------------------------------------------------------------------------
MaxFillOps == 90

FillSize == 100

FillTuple == << Run(1, FillSize) >>

TinyTuple == << Run(2, 1) >>

FillInsert ==
  /\ psteps < MaxFillOps
  /\ LET r == PageInsertTuple(pg, FillTuple, FillSize)
     IN /\ pg' = r.p
        /\ pop' = [NoOp EXCEPT !.name = "Insert", !.data = FillTuple,
                               !.size = FillSize, !.res = r.slot]
  /\ ppre' = pg
  /\ psteps' = psteps + 1
  /\ UNCHANGED mvars

FillTiny ==
  /\ psteps < MaxFillOps
  /\ pop.name = "Insert" /\ pop.res = INVALID_SLOT_ID
  /\ LET r == PageInsertTuple(pg, TinyTuple, 1)
     IN /\ pg' = r.p
        /\ pop' = [NoOp EXCEPT !.name = "Insert", !.data = TinyTuple,
                               !.size = 1, !.res = r.slot]
  /\ ppre' = pg
  /\ psteps' = psteps + 1
  /\ UNCHANGED mvars

FillNext == FillInsert \/ FillTiny

FillSpec == Init /\ [][FillNext]_vars

\* the page holds nothing but FillSize-byte tuples
OnlyFillTuples(p) ==
  /\ InvalidSlots(p) = {}
  /\ \A s \in ValidSlots(p) : GetSlotEntry(p, s).length = FillSize

\* the first part of C14: while only 100-byte tuples were inserted, the
\* Insert is refused exactly when floor((PAGE_SIZE - header_size) / 108)
\* tuples are on the page
FillCountAtRefusal ==
  (pop.name = "Insert" /\ pop.size = FillSize /\ OnlyFillTuples(ppre)) =>
    (pop.res = INVALID_SLOT_ID <=>
       ppre.slot_count = (PAGE_SIZE - HEADER_SIZE) \div (FillSize + SLOT_ENTRY_SIZE))

\* C14: 100-byte Inserts into a fresh page succeed exactly
\* floor((PAGE_SIZE - header_size) / 108) times and then fail, and once a
\* 100-byte Insert has been refused an Insert of one byte fails as well.
C14_FillToRefusal ==
  [][ /\ FillCountAtRefusal'
      /\ (/\ pop.name = "Insert" /\ pop.size = FillSize
          /\ pop.res = INVALID_SLOT_ID /\ OnlyFillTuples(pg)
          /\ pop'.name = "Insert" /\ pop'.size = 1 /\ psteps' = psteps + 1)
           => pop'.res = INVALID_SLOT_ID ]_vars

\* ------------------------------------------------------------------------
\* ChainSpec: FollowForwardingChain on a page whose slot directory holds any
\* contents (as ReadPage may deliver), or one straight chain of forwards
\* ------------------------------------------------------------------------
MaxChainSlots == 3

MaxChainLength == 11

\* the page FollowForwardingChain runs on, and another page
ChainPageId == 1

OtherPageId == 2

\* what one slot entry may hold: deleted, live, forwarded anywhere (also to
\* itself, to a slot out of range, to the other page), forwarded but deleted
ChainEntries(n) ==
  {SlotEntry(0, 0, 0, <<0, 0, 0>>), SlotEntry(HEADER_SIZE, 1, SLOT_VALID, <<0, 0, 0>>),
   SlotEntry(0, 0, SLOT_FORWARDED, <<ChainPageId, 0, 0>>)}
  \cup {SlotEntry(0, 0, SLOT_VALID + SLOT_FORWARDED, <<pid, 0, t>>) :
          pid \in {ChainPageId, OtherPageId}, t \in 0..n}

ChainPage(slots) ==
  LET p0 == [SetPageId(CreateNew, ChainPageId) EXCEPT
               !.slot_count = Len(slots),
               !.free_end = PAGE_SIZE - Len(slots) * SLOT_ENTRY_SIZE,
               !.free_start = HEADER_SIZE + 1,
               !.slots = slots]
  IN [p0 EXCEPT !.checksum = ComputeChecksum(p0)]

\* slot i forwards to slot i + 1 for i < len, and slot len is a live tuple
StraightChain(len) ==
  ChainPage([i \in 1..(len + 1) |->
               IF i <= len
               THEN SlotEntry(0, 0, SLOT_VALID + SLOT_FORWARDED,
                              <<ChainPageId, 0, i>>)
               ELSE SlotEntry(HEADER_SIZE, 1, SLOT_VALID, <<0, 0, 0>>)])

ChainPages ==
  {ChainPage(sl) : sl \in UNION {[1..n -> ChainEntries(n)] : n \in 0..MaxChainSlots}}
  \cup {StraightChain(len) : len \in 0..MaxChainLength}

ChainInit ==
  /\ pg \in ChainPages
  /\ ppre = CreateNew
  /\ pop = NoOp
  /\ psteps = 0
  /\ MInit

\* one call of FollowForwardingChain; pop.size holds max_hops, pop.tpage and
\* pop.tslot the result, pop.res the number of slots visited
ChainFollow ==
  /\ psteps = 0
  /\ \E s \in 0..pg.slot_count :
     \E h \in {0, 1, 2, DEFAULT_MAX_HOPS} :
       LET r == FollowForwardingChain(pg, s, h)
       IN pop' = [NoOp EXCEPT !.name = "Follow", !.slot = s, !.size = h,
                              !.tpage = r.page_id, !.tslot = r.slot_id,
                              !.res = ChainVisited(pg, s, h)]
  /\ psteps' = 1
  /\ ppre' = pg
  /\ UNCHANGED << pg, mvars >>

ChainSpec == ChainInit /\ [][ChainFollow]_vars

\* the (page, slot) reached after k hops from slot s of page p
RECURSIVE ChainPos(_, _, _)
ChainPos(p, s, k) ==
  IF k = 0 THEN TupleId(p.page_id, s)
  ELSE GetForwardingPointer(p, ChainPos(p, s, k - 1).slot_id)

\* pos is a VALID, FORWARDED slot of page p: the chain goes on from it
ChainGoesOn(p, pos) ==
  /\ pos.page_id = p.page_id
  /\ pos.slot_id < p.slot_count
  /\ HasFlag(GetSlotEntry(p, pos.slot_id).flags, SLOT_VALID)
  /\ HasFlag(GetSlotEntry(p, pos.slot_id).flags, SLOT_FORWARDED)

\* the chain from s ends after exactly k hops
ChainEndsAfter(p, s, k) ==
  /\ \A j \in 0..(k - 1) : ChainGoesOn(p, ChainPos(p, s, j))
  /\ ~ChainGoesOn(p, ChainPos(p, s, k))

\* what the walker has to return for the chain from s with max_hops h
ChainAnswer(p, s, h) ==
  IF \E k \in 0..h : ChainEndsAfter(p, s, k)
  THEN LET k == CHOOSE k \in 0..h : ChainEndsAfter(p, s, k)
           end == ChainPos(p, s, k)
       IN IF end.page_id # p.page_id THEN end
          ELSE IF end.slot_id < p.slot_count
                  /\ HasFlag(GetSlotEntry(p, end.slot_id).flags, SLOT_VALID)
               THEN end
               ELSE TupleId(0, 0)
  ELSE TupleId(0, 0)

\* C15: FollowForwardingChain(slot, max_hops) visits at most max_hops + 1
\* slots; it returns the first VALID non-forwarded slot when the on-page
\* chain has at most max_hops hops, the target unchanged as soon as a hop
\* names another page, and (0,0) on a cycle, on an invalid or out-of-range
\* slot in the chain, or when the chain is longer than max_hops.
C15_ChainWalker ==
  pop.name = "Follow" =>
    /\ pop.res <= pop.size + 1
    /\ TupleId(pop.tpage, pop.tslot) = ChainAnswer(pg, pop.slot, pop.size)

\* a chain of exactly ten hops, resolved with the default max_hops
C15_Witness ==
  /\ pop.name = "Follow" /\ pop.slot = 0 /\ pop.size = DEFAULT_MAX_HOPS
  /\ pg = StraightChain(DEFAULT_MAX_HOPS)
  /\ pop.tpage = ChainPageId /\ pop.tslot = DEFAULT_MAX_HOPS
  /\ pop.res = DEFAULT_MAX_HOPS + 1

\* ------------------------------------------------------------------------
\* FsmSpec: one FreeSpaceMap driven through its public methods, and a second
\* instance constructed on the same file
\* ------------------------------------------------------------------------
MaxFsmOps == 4
MaxFsmPage == 3

\* page ids passed to UpdatePageFreeSpace
FsmPageIds == 0..MaxFsmPage

\* page ids asked of GetCategory: the updated range and ids past the cache
FsmProbeIds == 0..(2 * MaxFsmPage + 2)

\* uint16_t byte counts passed as available_bytes and required_bytes
FsmBytes == {0, 33, 4096, 9000}

FsmCall(name, page_id, bytes, res) ==
  [name |-> name, prev |-> op.name, page_id |-> page_id, bytes |-> bytes,
   res |-> res]

FsmUpdate ==
  /\ steps < MaxFsmOps
  /\ \E page_id \in FsmPageIds : \E b \in FsmBytes :
       /\ fsm' = UpdatePageFreeSpace(fsm, page_id, b)
       /\ fsm_last' = (page_id :> b) @@ fsm_last
       /\ op' = FsmCall("Update", page_id, b, 0)
  /\ steps' = steps + 1
  /\ UNCHANGED << page_cache_, cache_peak, cache_lost, disk, dvars,
                  next_page_id_, fsm_file, expect, fsm2,
                  pvars >>

FsmFlushCall ==
  /\ steps < MaxFsmOps
  /\ LET r == FsmFlush(fsm, fsm_file)
     IN /\ fsm' = r.f
        /\ fsm_file' = r.file
  /\ op' = FsmCall("Flush", 0, 0, 1)
  /\ steps' = steps + 1
  /\ UNCHANGED << page_cache_, cache_peak, cache_lost, disk, dvars,
                  next_page_id_, expect, fsm_last, fsm2,
                  pvars >>

\* FreeSpaceMap fsm2(file); fsm2.Initialize();
FsmOpenSecond ==
  /\ steps < MaxFsmOps
  /\ fsm2' = FsmInitialize(fsm_file)
  /\ op' = FsmCall("Open", 0, 0, 1)
  /\ steps' = steps + 1
  /\ UNCHANGED << page_cache_, cache_peak, cache_lost, disk, dvars,
                  next_page_id_, fsm, fsm_file, expect,
                  fsm_last, pvars >>

FsmFind ==
  /\ steps < MaxFsmOps
  /\ \E b \in FsmBytes : \E r \in FsmFindPageWithSpace(fsm, b) :
       op' = FsmCall("Find", r, b, r)
  /\ steps' = steps + 1
  /\ UNCHANGED << page_cache_, cache_peak, cache_lost, disk, dvars,
                  next_page_id_, fsm, fsm_file, expect,
                  fsm_last, fsm2, pvars >>

FsmNext == FsmUpdate \/ FsmFlushCall \/ FsmOpenSecond \/ FsmFind

FsmSpec == Init /\ [][FsmNext]_vars

\* the category GetCategory is expected to report for a page
LastCategory(page_id) ==
  IF page_id \in DOMAIN fsm_last THEN BytesToCategory(fsm_last[page_id]) ELSE 0

\* C16: after any sequence of UpdatePageFreeSpace calls GetCategory(p) is
\* BytesToCategory of the last byte count written for p and 0 for every page
\* never updated; a second instance initialised on the file right after Flush
\* reports the same category for every page.
C16_FsmRoundTrip ==
  /\ \A page_id \in FsmProbeIds : GetCategory(fsm, page_id) = LastCategory(page_id)
  /\ (op.name = "Open" /\ op.prev = "Flush") =>
       \A page_id \in FsmProbeIds :
         GetCategory(fsm2, page_id) = GetCategory(fsm, page_id)

\* pages 0 and 3 were updated, 1 and 2 never; the second instance was opened
\* right after Flush and reports 4096 bytes' category for page 3
C16_Witness ==
  /\ op.name = "Open" /\ op.prev = "Flush"
  /\ DOMAIN fsm_last = {0, 3}
  /\ fsm_last[3] = 4096
  /\ GetCategory(fsm2, 3) = 127
  /\ GetCategory(fsm2, 1) = 0

\* the allocated pages that satisfy the search condition for required_bytes
Qualifying(f, required_bytes) ==
  {page_id \in f.allocated :
     \/ GetCategory(f, page_id) > BytesToCategory(required_bytes)
     \/ /\ GetCategory(f, page_id) = BytesToCategory(required_bytes)
        /\ GetCategory(f, page_id) > 0}

\* C17: FindPageWithSpace(required) returns INVALID_PAGE_ID if and only if no
\* allocated page has a category above BytesToCategory(required), or equal to
\* it and non-zero; otherwise it returns an allocated page that does; this
\* for every allocated set, one that contains page id 0 included.
C17_FindPageWithSpace ==
  op.name = "Find" =>
    /\ (op.res = INVALID_PAGE_ID) <=> (Qualifying(fsm, op.bytes) = {})
    /\ Qualifying(fsm, op.bytes) # {} => op.res \in Qualifying(fsm, op.bytes)

\* the same with page id 0 never handed to the map: the statement without
\* the case of an allocated set that contains page id 0
FindPageWithSpace_WithoutPageZero ==
  (op.name = "Find" /\ 0 \notin fsm.allocated) =>
    /\ (op.res = INVALID_PAGE_ID) <=> (Qualifying(fsm, op.bytes) = {})
    /\ Qualifying(fsm, op.bytes) # {} => op.res \in Qualifying(fsm, op.bytes)

\* ------------------------------------------------------------------------
\* QuantSpec: the two category conversions applied to every uint16_t value
\* ------------------------------------------------------------------------
QuantInit ==
  /\ PInit
  /\ page_cache_ = <<>>
  /\ cache_peak = 0
  /\ cache_lost = {}
  /\ disk = <<>>
  /\ next_page_id_ = 1
  /\ fsm = FsmInitialize(NoFile)
  /\ fsm_file = NoFile
  /\ \E b \in 0..(UINT16_MOD - 1) :
       op = [name |-> "none", bytes |-> b, category |-> 0, category_next |-> 0,
             back |-> 0]
  /\ steps = 0
  /\ expect = <<>>
  /\ fsm_last = <<>>
  /\ fsm2 = NotConstructed
  /\ DMInit

\* category = BytesToCategory(bytes), back = CategoryToBytes(category), and
\* category_next = BytesToCategory of the next larger uint16_t value
Quantise ==
  /\ op.name = "none"
  /\ op' = [op EXCEPT
              !.name = "Quantise",
              !.category = BytesToCategory(op.bytes),
              !.category_next =
                 BytesToCategory(IF op.bytes < UINT16_MOD - 1
                                 THEN op.bytes + 1 ELSE op.bytes),
              !.back = CategoryToBytes(BytesToCategory(op.bytes))]
  /\ steps' = 1
  /\ UNCHANGED << page_cache_, cache_peak, cache_lost, disk, dvars,
                  next_page_id_, fsm, fsm_file, expect,
                  fvars, dvars, pvars >>

QuantSpec == QuantInit /\ [][Quantise]_vars

\* C18: BytesToCategory(0) = 0; BytesToCategory(b) = 255 for every b >= 8192;
\* BytesToCategory is non-decreasing (each value is at most the value of the
\* next larger argument); for b in 0..8192 CategoryToBytes(BytesToCategory(b))
\* is at most b and at most 33 below b.
C18_Quantisation ==
  op.name = "Quantise" =>
    /\ op.bytes = 0 => op.category = 0
    /\ op.bytes >= PAGE_SIZE => op.category = MAX_CATEGORY
    /\ op.category <= op.category_next
    /\ op.bytes <= PAGE_SIZE =>
         /\ op.back <= op.bytes
         /\ op.bytes - op.back <= 33

\* 8191 bytes: category 254, converted back to 8159 bytes
C18_Witness ==
  /\ op.name = "Quantise"
  /\ op.bytes = PAGE_SIZE - 1
  /\ op.category = MAX_CATEGORY - 1
  /\ op.back = 8159

\* ------------------------------------------------------------------------
\* CacheSpec: the coordinator with MAX_CACHE_SIZE pages resident
\* ------------------------------------------------------------------------
CacheOps == 2

\* a tuple so large that no two of them share a page, and a small one
CacheTuple == << Run(4, 5000) >>
SmallTuple == << Run(1, 5) >>

\* page page_id after AllocateNewPage and one InsertTuple(CacheTuple)
CachePage(page_id) ==
  PageInsertTuple(SetPageId(CreateNew, page_id), CacheTuple, BLen(CacheTuple)).p

\* fsm_cache_ doubles from 0: after pages 1..n its size is the least power of
\* two above n
RECURSIVE CacheCapacity(_, _)
CacheCapacity(size, n) ==
  IF n < size THEN size ELSE CacheCapacity(IF size = 0 THEN 2 ELSE 2 * size, n)

\* the map after UpdateFSM for pages 1..n, each holding one CacheTuple
CacheFsm(n) ==
  [cache |-> [i \in 1..CacheCapacity(0, n) |->
                IF 2 <= i /\ i <= n + 1
                THEN BytesToCategory(PAGE_SIZE - HEADER_SIZE - SLOT_ENTRY_SIZE
                                     - BLen(CacheTuple))
                ELSE 0],
   allocated |-> 1..n,
   page_count |-> n + 1,
   is_dirty_ |-> TRUE]

\* the coordinator after n InsertTuple(CacheTuple) calls on a new database
CacheWorld(n) ==
  [cache |-> [page_id \in 1..n |-> CachePage(page_id)],
   disk |-> <<>>,
   next |-> n + 1,
   fsm |-> CacheFsm(n),
   file |-> NoFile,
   peak |-> n,
   lost |-> {}]

\* that state, and the state one FlushAllPages later
CacheInit ==
  /\ PInit
  /\ \E w \in {CacheWorld(MAX_CACHE_SIZE),
               FlushAllPages(CacheWorld(MAX_CACHE_SIZE)).w} :
       /\ page_cache_ = w.cache
       /\ disk = w.disk
       /\ next_page_id_ = w.next
       /\ fsm = w.fsm
       /\ fsm_file = w.file
  /\ cache_peak = MAX_CACHE_SIZE
  /\ cache_lost = {}
  /\ op = [NoCall EXCEPT !.name = "Insert",
                         !.tid = TupleId(MAX_CACHE_SIZE, 0),
                         !.data = CacheTuple]
  /\ steps = 0
  /\ expect = <<>>
  /\ fsm_last = <<>>
  /\ fsm2 = NotConstructed
  /\ DMInit

\* tuple ids handed to GetTuple and UpdateTuple
CacheTids == {TupleId(1, 0), TupleId(2, 0)}

CacheInsert ==
  /\ steps < CacheOps
  /\ \E d \in {CacheTuple, SmallTuple} : \E out \in InsertTuple(W, d, BLen(d)) :
       /\ SetWorld(out.w)
       /\ op' = Call("Insert", out.tid, d,
                     IF out.tid.slot_id = INVALID_SLOT_ID THEN -1 ELSE 0, "none")
  /\ steps' = steps + 1
  /\ UNCHANGED << expect, pvars, fvars, dvars >>

CacheGet ==
  /\ steps < CacheOps
  /\ \E tid \in CacheTids : \E out \in GetTuple(W, tid, BigBuffer) :
       /\ SetWorld(out.w)
       /\ op' = Call("Get", tid, out.bytes, out.code, "none")
  /\ steps' = steps + 1
  /\ UNCHANGED << expect, pvars, fvars, dvars >>

CacheUpdate ==
  /\ steps < CacheOps
  /\ \E tid \in CacheTids : \E out \in UpdateTuple(W, tid, SmallTuple, BLen(SmallTuple)) :
       /\ SetWorld(out.w)
       /\ op' = Call("Update", tid, SmallTuple, out.code, out.path)
  /\ steps' = steps + 1
  /\ UNCHANGED << expect, pvars, fvars, dvars >>

CacheFlush ==
  /\ steps < CacheOps
  /\ LET out == FlushAllPages(W)
     IN /\ SetWorld(out.w)
        /\ op' = Call("Flush", TupleId(0, 0), <<>>, out.code, "none")
  /\ steps' = steps + 1
  /\ UNCHANGED << expect, pvars, fvars, dvars >>

CacheClear ==
  /\ steps < CacheOps
  /\ SetWorld(ClearCache(W))
  /\ op' = Call("ClearCache", TupleId(0, 0), <<>>, 0, "none")
  /\ steps' = steps + 1
  /\ UNCHANGED << expect, pvars, fvars, dvars >>

CacheNext == CacheInsert \/ CacheGet \/ CacheUpdate \/ CacheFlush \/ CacheClear

CacheSpec == CacheInit /\ [][CacheNext]_vars

\* C19: after every coordinator operation at most MAX_CACHE_SIZE pages are
\* resident, and during an operation page_cache_ never holds more than
\* MAX_CACHE_SIZE + 1 entries.
C19_CacheBound ==
  /\ Cardinality(DOMAIN page_cache_) <= MAX_CACHE_SIZE
  /\ cache_peak <= MAX_CACHE_SIZE + 1

\* InsertTuple allocated page MAX_CACHE_SIZE + 1 with the cache full, one page
\* was evicted and MAX_CACHE_SIZE pages are resident
C19_Witness ==
  /\ op.name = "Insert"
  /\ op.tid = TupleId(MAX_CACHE_SIZE + 1, 0)
  /\ steps = 1
  /\ MAX_CACHE_SIZE + 1 \in DOMAIN page_cache_
  /\ Cardinality(DOMAIN page_cache_) = MAX_CACHE_SIZE

\* C20: no operation removes from page_cache_, by eviction or by ClearCache,
\* a page whose in-memory contents the block device does not hold: a write of
\* those contents completed before the page left the cache.
C20_NoUnwrittenDrop == cache_lost = {}

\* ------------------------------------------------------------------------
\* DiskSpec: one DiskManager at a time on one data file, called from one thread
\* ------------------------------------------------------------------------
MaxAllocs == 16

\* the DiskManager object: [next_page_id_, file_header_]
DM == [next_page_id_ |-> next_page_id_, file_header_ |-> file_header_]

\* result: [dm |-> object after the call, page_id |-> value returned]
AllocatePage(dm) ==
  [dm |-> [dm EXCEPT !.next_page_id_ = dm.next_page_id_ + 1,
                     !.file_header_.page_count_ = @ + 1],
   page_id |-> dm.next_page_id_]

\* variant: the header is written without the current next_page_id_
CloseDBFile_NoSave(dm) == dm.file_header_

\* the FileHeader CloseDBFile leaves in the file
CloseDBFile(dm) == [dm.file_header_ EXCEPT !.next_page_id = dm.next_page_id_]

\* the object OpenDBFile makes on a file that exists with header h
OpenDBFile(h) == [next_page_id_ |-> h.next_page_id, file_header_ |-> h]

DiskCall(name, res) == [name |-> name, prev |-> op.name, res |-> res]

DAllocatePage ==
  /\ Len(dm_ids) < MaxAllocs
  /\ LET r == AllocatePage(DM)
     IN /\ next_page_id_' = r.dm.next_page_id_
        /\ file_header_' = r.dm.file_header_
        /\ dm_ids' = Append(dm_ids, r.page_id)
        /\ op' = DiskCall("AllocatePage", r.page_id)
  /\ UNCHANGED << page_cache_, cache_peak, cache_lost, disk, fsm, fsm_file,
                  steps, expect, fvars, db_file, metadata_mutex_, fsm_mutex_, th_pc,
                  th_ret, cache_mutex_, lin_world, pvars >>

\* the DiskManager is destroyed and a new one is constructed on the file
DReopen ==
  /\ db_file' = CloseDBFile(DM)
  /\ next_page_id_' = OpenDBFile(db_file').next_page_id_
  /\ file_header_' = OpenDBFile(db_file').file_header_
  /\ op' = DiskCall("Reopen", 0)
  /\ UNCHANGED << page_cache_, cache_peak, cache_lost, disk, fsm, fsm_file,
                  steps, expect, fvars, dm_ids, metadata_mutex_, fsm_mutex_, th_pc,
                  th_ret, cache_mutex_, lin_world, pvars >>

DiskNext == DAllocatePage \/ DReopen

DiskSpec == Init /\ [][DiskNext]_vars

\* C21: on a newly created file the first AllocatePage returns 1 and every
\* later call returns the previous result plus one, also when the file was
\* closed and opened again in between; 0 is never returned and no id is
\* returned twice.
C21_PageIdAllocation ==
  /\ dm_ids # <<>> => dm_ids[1] = 1
  /\ \A i \in 1..(Len(dm_ids) - 1) : dm_ids[i + 1] = dm_ids[i] + 1
  /\ \A i \in 1..Len(dm_ids) : dm_ids[i] # INVALID_PAGE_ID
  /\ \A i, j \in 1..Len(dm_ids) : i # j => dm_ids[i] # dm_ids[j]

\* three ids were allocated, the file was closed and opened again, and the
\* next AllocatePage returned 4
C21_Witness ==
  /\ op.name = "AllocatePage"
  /\ op.prev = "Reopen"
  /\ op.res = 4
  /\ dm_ids = << 1, 2, 3, 4 >>

\* ------------------------------------------------------------------------
\* ThreadSpec: several threads call AllocatePage on one DiskManager
\* ------------------------------------------------------------------------
CallsPerThread == 2

\* variant: the lock is taken without regard to its holder
LockAvailable_NoMutex(mutex) == TRUE

\* std::lock_guard<std::mutex> can be constructed: nobody holds the mutex
LockAvailable(mutex) == mutex = 0

ThreadFrame ==
  UNCHANGED << page_cache_, cache_peak, cache_lost, disk, fsm, fsm_file, op,
               steps, expect, fvars, db_file, dm_ids, cache_mutex_, fsm_mutex_, lin_world,
               pvars >>

\* the thread enters AllocatePage
TCall(t) ==
  /\ th_pc[t].pc = "idle"
  /\ Len(th_ret[t]) < CallsPerThread
  /\ th_pc' = [th_pc EXCEPT ![t].pc = "lock"]
  /\ UNCHANGED << next_page_id_, file_header_, metadata_mutex_, th_ret >>
  /\ ThreadFrame

\* std::lock_guard<std::mutex> lock(metadata_mutex_)
TLock(t) ==
  /\ th_pc[t].pc = "lock"
  /\ LockAvailable(metadata_mutex_)
  /\ metadata_mutex_' = t
  /\ th_pc' = [th_pc EXCEPT ![t].pc = "read"]
  /\ UNCHANGED << next_page_id_, file_header_, th_ret >>
  /\ ThreadFrame

\* new_page_id = next_page_id_++ : the read
TRead(t) ==
  /\ th_pc[t].pc = "read"
  /\ th_pc' = [th_pc EXCEPT ![t].pc = "write",
                            ![t].new_page_id = next_page_id_]
  /\ UNCHANGED << next_page_id_, file_header_, metadata_mutex_, th_ret >>
  /\ ThreadFrame

\* new_page_id = next_page_id_++ : the write, and file_header_.page_count_++
TWrite(t) ==
  /\ th_pc[t].pc = "write"
  /\ next_page_id_' = th_pc[t].new_page_id + 1
  /\ file_header_' = [file_header_ EXCEPT !.page_count_ = @ + 1]
  /\ th_pc' = [th_pc EXCEPT ![t].pc = "return"]
  /\ UNCHANGED << metadata_mutex_, th_ret >>
  /\ ThreadFrame

\* return new_page_id; the lock_guard releases the mutex
TReturn(t) ==
  /\ th_pc[t].pc = "return"
  /\ metadata_mutex_' = 0
  /\ th_ret' = [th_ret EXCEPT ![t] = Append(@, th_pc[t].new_page_id)]
  /\ th_pc' = [th_pc EXCEPT ![t].pc = "idle"]
  /\ UNCHANGED << next_page_id_, file_header_ >>
  /\ ThreadFrame

ThreadNext ==
  \E t \in Threads : TCall(t) \/ TLock(t) \/ TRead(t) \/ TWrite(t) \/ TReturn(t)

ThreadSpec == Init /\ [][ThreadNext]_vars

\* the ids the calls returned so far, and how many calls returned
ReturnedIds == UNION {{th_ret[t][i] : i \in 1..Len(th_ret[t])} : t \in Threads}
ReturnedCount == LET RECURSIVE Sum(_)
                     Sum(S) == IF S = {} THEN 0
                               ELSE LET t == CHOOSE t \in S : TRUE
                                    IN Len(th_ret[t]) + Sum(S \ {t})
                 IN Sum(Threads)

AllReturned == \A t \in Threads : th_pc[t].pc = "idle"

\* C22: concurrent AllocatePage calls on one DiskManager return pairwise
\* distinct ids, and once all calls have returned the ids are exactly the
\* contiguous range that starts at the next_page_id_ before the calls (1 on
\* the new file), under every interleaving.
C22_ConcurrentAllocation ==
  /\ Cardinality(ReturnedIds) = ReturnedCount
  /\ AllReturned => ReturnedIds = 1..ReturnedCount

\* both threads made all their calls and their results interleave
C22_Witness ==
  /\ AllReturned
  /\ th_ret[1] = << 2, 3 >>
  /\ th_ret[2] = << 1, 4 >>

\* ------------------------------------------------------------------------
\* CoordSpec: several threads call the public methods of one PageManager
\* ------------------------------------------------------------------------
CoordCallsPerThread == 2

\* the calls the threads make
CoordCalls ==
  { [name |-> "Insert", tid |-> TupleId(0, 0), data |-> << Run(1, 5) >>],
    [name |-> "Get", tid |-> TupleId(1, 0), data |-> <<>>],
    [name |-> "Update", tid |-> TupleId(1, 0), data |-> << Run(5, 1), Run(8, 2) >>],
    [name |-> "Delete", tid |-> TupleId(1, 0), data |-> <<>>],
    [name |-> "Flush", tid |-> TupleId(0, 0), data |-> <<>>],
    [name |-> "Compact", tid |-> TupleId(1, 0), data |-> <<>>],
    [name |-> "ClearCache", tid |-> TupleId(0, 0), data |-> <<>>] }

\* what a call hands back: a tuple id, an error code, bytes in the buffer
Result(tid, code, bytes) == [tid |-> tid, code |-> code, bytes |-> bytes]

\* set of [w, res]: the worlds and return values of a call made on world w
Outcomes(call, w) ==
  CASE call.name = "Insert" ->
         {[w |-> o.w, res |-> Result(o.tid, 0, <<>>)] :
            o \in InsertTuple(w, call.data, BLen(call.data))}
    [] call.name = "Get" ->
         {[w |-> o.w, res |-> Result(call.tid, o.code, o.bytes)] :
            o \in GetTuple(w, call.tid, BigBuffer)}
    [] call.name = "Update" ->
         {[w |-> o.w, res |-> Result(call.tid, o.code, <<>>)] :
            o \in UpdateTuple(w, call.tid, call.data, BLen(call.data))}
    [] call.name = "Delete" ->
         {[w |-> o.w, res |-> Result(call.tid, o.code, <<>>)] :
            o \in DeleteTuple(w, call.tid)}
    [] call.name = "Flush" ->
         {[w |-> FlushAllPages(w).w,
           res |-> Result(call.tid, FlushAllPages(w).code, <<>>)]}
    [] call.name = "Compact" ->
         {[w |-> o.w, res |-> Result(call.tid, o.code, <<>>)] :
            o \in MgrCompactPage(w, call.tid.page_id)}
    [] OTHER -> {[w |-> ClearCache(w), res |-> Result(call.tid, 0, <<>>)]}

\* the program state of a world, without the per-call bookkeeping
Real(w) == [cache |-> w.cache, disk |-> w.disk, next |-> w.next,
            fsm |-> w.fsm, file |-> w.file]

\* variant: the lock is taken without regard to its holder
CacheLockAvailable_NoMutex(mutex) == TRUE

\* std::lock_guard<std::mutex> lock(cache_mutex_) can be constructed
CacheLockAvailable(mutex) == mutex = 0

\* the thread enters a method, takes cache_mutex_ and makes its first access
\* to the cache: what the call does is decided by the state it finds
CTEnter(t) ==
  /\ th_pc[t].pc = "idle"
  /\ Len(th_ret[t]) < CoordCallsPerThread
  /\ CacheLockAvailable(cache_mutex_)
  /\ cache_mutex_' = t
  /\ \E call \in CoordCalls : \E o \in Outcomes(call, W) :
       /\ th_pc' = [th_pc EXCEPT ![t] = [pc |-> "body", call |-> call,
                                         seen |-> Real(W), out |-> o]]
       /\ lin_world' = IF Real(lin_world) = Real(W) THEN o.w
                       ELSE (CHOOSE x \in Outcomes(call, lin_world) : TRUE).w
  /\ UNCHANGED << page_cache_, cache_peak, cache_lost, disk, next_page_id_,
                  fsm, fsm_file, op, steps, expect, fvars, file_header_,
                  db_file, dm_ids, metadata_mutex_, fsm_mutex_, th_ret, pvars >>

\* the method finishes its work on the cache and on the files, returns, and
\* the lock_guard releases cache_mutex_
CTReturn(t) ==
  /\ th_pc[t].pc = "body"
  /\ SetWorld(th_pc[t].out.w)
  /\ cache_mutex_' = 0
  /\ th_ret' = [th_ret EXCEPT ![t] = Append(@, th_pc[t].out.res)]
  /\ th_pc' = [th_pc EXCEPT ![t] = [pc |-> "idle", call |-> th_pc[t].call,
                                    seen |-> th_pc[t].seen,
                                    out |-> th_pc[t].out]]
  /\ op' = [NoCall EXCEPT !.name = th_pc[t].call.name, !.prev = op.name]
  /\ UNCHANGED << steps, expect, fvars, file_header_, db_file, dm_ids,
                  metadata_mutex_, fsm_mutex_, lin_world, pvars >>

CoordNext == \E t \in Threads : CTEnter(t) \/ CTReturn(t)

CoordSpec == Init /\ [][CoordNext]_vars

\* C23: the public methods run one at a time: the state a call found at its
\* first access to the cache is still the state when it finishes, and whenever
\* no call is in progress the coordinator is in the state that running the
\* calls one by one, in the order they took the mutex, leads to.
C23_Serialised ==
  /\ \A t \in Threads :
       th_pc[t].pc = "body" => th_pc[t].seen = Real(W)
  /\ (\A t \in Threads : th_pc[t].pc = "idle") => Real(lin_world) = Real(W)

\* thread 1 inserted (1,0) and then read it, thread 2 updated it in between
C23_Witness ==
  /\ \A t \in Threads : th_pc[t].pc = "idle"
  /\ Len(th_ret[1]) = 2 /\ Len(th_ret[2]) = 1
  /\ th_pc[1].call.name = "Get" /\ th_pc[2].call.name = "Update"
  /\ th_ret[1][1] = Result(TupleId(1, 0), 0, <<>>)
  /\ th_ret[2][1] = Result(TupleId(1, 0), 0, <<>>)
  /\ th_ret[1][2] = Result(TupleId(1, 0), 0, << Run(5, 1), Run(8, 2) >>)

\* C24: after a successful insert the page that received the tuple has its
\* dirty flag set, whatever the flag was before (the page may have been
\* written back or loaded from disk just before).
C24_InsertSetsDirty ==
  (op.name = "Insert" /\ op.code = 0) =>
    /\ op.tid.page_id \in DOMAIN page_cache_
    /\ page_cache_[op.tid.page_id].is_dirty_

\* ------------------------------------------------------------------------
\* RetrySpec: inserts whose size the free-space map misjudges
\* ------------------------------------------------------------------------
RetryOps == 5
MaxRetryPages == 4

\* 5000 bytes leave 3144 free (category 97); 3140 bytes need 3148 (category
\* 97 as well); 3000 and 140 bytes play the same game inside one page
RetryPayloads ==
  { << Run(4, 5000) >>, << Run(6, 3140) >>, << Run(3, 3000) >>, << Run(2, 140) >> }

RetryTids == { TupleId(1, 0), TupleId(1, 1) }

RetryCall(name, tid, tried, why) ==
  [name |-> name, prev |-> op.name, tid |-> tid, tried |-> tried, why |-> why]

RInsert ==
  /\ steps < RetryOps
  /\ \E d \in RetryPayloads : \E out \in InsertTuple(W, d, BLen(d)) :
       /\ out.w.next <= MaxRetryPages + 1
       /\ SetWorld(out.w)
       /\ op' = RetryCall("Insert", out.tid, out.tried, out.why)
  /\ steps' = steps + 1
  /\ UNCHANGED << expect, pvars, fvars, dvars >>

RDelete ==
  /\ steps < RetryOps
  /\ \E tid \in RetryTids : \E out \in DeleteTuple(W, tid) :
       /\ SetWorld(out.w)
       /\ op' = RetryCall("Delete", tid, <<>>, "none")
  /\ steps' = steps + 1
  /\ UNCHANGED << expect, pvars, fvars, dvars >>

RetryNext == RInsert \/ RDelete

RetrySpec == Init /\ [][RetryNext]_vars

\* C25: one InsertTuple call makes at most three attempts; a page where an
\* attempt failed (its compaction retry included) has category 0 in the map
\* afterwards and is not tried again in the same call; the invalid tuple-id is
\* returned only after three failed attempts or when a page could not be
\* fetched or allocated.
C25_InsertRetry ==
  (op.name = "Insert" /\ op.why # "argument") =>
    /\ Len(op.tried) <= 3
    /\ \A i, j \in 1..Len(op.tried) : i # j => op.tried[i] # op.tried[j]
    /\ \A i \in 1..Len(op.tried) :
         (i < Len(op.tried) \/ op.tid = InvalidTupleId) =>
           GetCategory(fsm, op.tried[i]) = 0
    /\ op.tid = InvalidTupleId =>
         \/ op.why = "attempts" /\ Len(op.tried) = 3
         \/ op.why = "fetch"

\* three pages in turn were suggested by the map and refused the tuple: the
\* call gave up with the invalid tuple-id
C25_Witness ==
  /\ op.name = "Insert"
  /\ op.tid = InvalidTupleId
  /\ op.why = "attempts"
  /\ Len(op.tried) = 3
  /\ next_page_id_ = 4

\* the first attempt failed on page 1 and the second one, on a new page,
\* succeeded
RetryOnOtherPage ==
  /\ op.name = "Insert"
  /\ op.tried = << 1, 2 >>
  /\ op.tid = TupleId(2, 0)

\* the first attempt failed on page 1, the page was compacted and the retry
\* on it succeeded
RetryAfterCompaction ==
  /\ op.name = "Insert"
  /\ op.why = "compacted"

\* ---------------------------------------------------------------------------
\* UpdateTuple's spill path with a full cache (page_manager.cpp 154-251)
\* ---------------------------------------------------------------------------

\* a new version that fits neither in place nor on any page of the full cache
SpillTuple == <<Run(6, 5001)>>

\* the call record of UpdateTuple together with the pages erased from
\* page_cache_ while the call still held their Page*
HeldCall(tid, data, code, path, evicted) ==
  LET c == Call("Update", tid, data, code, path)
  IN [k \in DOMAIN c \cup {"evicted"} |->
        IF k = "evicted" THEN evicted ELSE c[k]]

HoldInit ==
  /\ PInit
  /\ \E w \in {CacheWorld(MAX_CACHE_SIZE),
               FlushAllPages(CacheWorld(MAX_CACHE_SIZE)).w} :
       /\ page_cache_ = w.cache
       /\ disk = w.disk
       /\ next_page_id_ = w.next
       /\ fsm = w.fsm
       /\ fsm_file = w.file
  /\ cache_peak = MAX_CACHE_SIZE
  /\ cache_lost = {}
  /\ op = [k \in DOMAIN NoCall \cup {"evicted"} |->
             IF k = "evicted" THEN {} ELSE NoCall[k]]
  /\ steps = 0
  /\ expect = <<>>
  /\ fsm_last = <<>>
  /\ fsm2 = NotConstructed
  /\ DMInit

HoldUpdate ==
  /\ steps < 1
  /\ \E tid \in CacheTids : \E data \in {SmallTuple, SpillTuple} :
       \E out \in UpdateTuple(W, tid, data, BLen(data)) :
         /\ SetWorld(out.w)
         /\ op' = HeldCall(tid, data, out.code, out.path, out.evicted)
  /\ steps' = steps + 1
  /\ UNCHANGED << expect, pvars, fvars, dvars >>

HoldNext == HoldUpdate

HoldSpec == HoldInit /\ [][HoldNext]_vars

\* C26: in UpdateTuple's spill path the page that received the new version is
\* still in page_cache_ when the original page has been re-fetched and the
\* free-space map is updated for both pages; no page whose pointer the call
\* still uses has been erased by a later cache insertion of the same call.
C26_HeldPageStaysResident ==
  (op.name = "Update" /\ op.path = "spill") => op.evicted = {}

\* the spill path ran to its end with a full cache
C26_SpillReached ==
  /\ op.name = "Update" /\ op.path = "spill" /\ op.code = 0
  /\ Cardinality(DOMAIN page_cache_) = MAX_CACHE_SIZE

\* ---------------------------------------------------------------------------
\* Cache misses whose read or checksum verification fails
\* (page_manager.cpp 357-395, disk_manager.cpp 147-200)
\* ---------------------------------------------------------------------------

MissOps == 3

\* pages 1 and 2 are on the device; the last page id was never allocated, so
\* pread returns fewer than PAGE_SIZE bytes for it
MissPages == {1, 2, MAX_CACHE_SIZE + 1}

MissTids == {TupleId(page_id, 0) : page_id \in MissPages}

\* two written pages and an empty cache, or a full cache of written pages
MissInit ==
  /\ PInit
  /\ \E w \in {ClearCache(FlushAllPages(CacheWorld(2)).w),
               FlushAllPages(CacheWorld(MAX_CACHE_SIZE)).w} :
       /\ page_cache_ = w.cache
       /\ disk = w.disk
       /\ next_page_id_ = w.next
       /\ fsm = w.fsm
       /\ fsm_file = w.file
       /\ cache_peak = Cardinality(DOMAIN w.cache)
  /\ cache_lost = {}
  /\ op = NoCall
  /\ steps = 0
  /\ expect = <<>>
  /\ fsm_last = <<>>
  /\ fsm2 = NotConstructed
  /\ DMInit

\* the stored image of a page is damaged on the device: its checksum field
\* no longer matches its contents
MissCorrupt ==
  /\ steps < MissOps
  /\ \E page_id \in MissPages \cap DOMAIN disk :
       /\ VerifyChecksum(disk[page_id])
       /\ disk' = [disk EXCEPT ![page_id].checksum = <<>>]
       /\ op' = Call("Corrupt", TupleId(page_id, 0), <<>>, 0, "none")
  /\ steps' = steps + 1
  /\ UNCHANGED << page_cache_, cache_peak, cache_lost, next_page_id_, fsm,
                  fsm_file, expect, pvars, fvars, dvars >>

MissGet ==
  /\ steps < MissOps
  /\ \E tid \in MissTids : \E out \in GetTuple(W, tid, BigBuffer) :
       /\ SetWorld(out.w)
       /\ op' = Call("Get", tid, out.bytes, out.code, "none")
  /\ steps' = steps + 1
  /\ UNCHANGED << expect, pvars, fvars, dvars >>

MissUpdate ==
  /\ steps < MissOps
  /\ \E tid \in MissTids :
       \E out \in UpdateTuple(W, tid, SmallTuple, BLen(SmallTuple)) :
         /\ SetWorld(out.w)
         /\ op' = Call("Update", tid, SmallTuple, out.code, out.path)
  /\ steps' = steps + 1
  /\ UNCHANGED << expect, pvars, fvars, dvars >>

MissDelete ==
  /\ steps < MissOps
  /\ \E tid \in MissTids : \E out \in DeleteTuple(W, tid) :
       /\ SetWorld(out.w)
       /\ op' = Call("Delete", tid, <<>>, out.code, "none")
  /\ steps' = steps + 1
  /\ UNCHANGED << expect, pvars, fvars, dvars >>

MissClear ==
  /\ steps < MissOps
  /\ SetWorld(ClearCache(W))
  /\ op' = Call("ClearCache", TupleId(0, 0), <<>>, 0, "none")
  /\ steps' = steps + 1
  /\ UNCHANGED << expect, pvars, fvars, dvars >>

MissNext == MissCorrupt \/ MissGet \/ MissUpdate \/ MissDelete \/ MissClear

MissSpec == MissInit /\ [][MissNext]_vars

\* the page is not resident and DiskManager::ReadPage would throw for it
FailedMiss(page_id) ==
  /\ page_id \notin DOMAIN page_cache_
  /\ ~ReadPage(disk, page_id).ok

\* C27: when a cache miss reads a page whose read fails or whose checksum does
\* not verify, GetPage leaves the cache as it found it (the page is not added,
\* no resident page is evicted or modified), and a GetTuple, UpdateTuple or
\* DeleteTuple whose tuple-id names such a page returns an error with the
\* cache unchanged.
C27_FailedMissKeepsCache ==
  [][ /\ \A page_id \in MissPages :
           FailedMiss(page_id) =>
             \A g \in GetPage(W, page_id) : ~g.ok /\ g.w = W
      /\ (op'.name \in {"Get", "Update", "Delete"}
          /\ FailedMiss(op'.tid.page_id))
         => (op'.code # 0 /\ page_cache_' = page_cache_) ]_vars

\* a GetTuple failed on a page whose stored checksum does not verify while
\* another page is resident
C27_Witness ==
  /\ op.name = "Get" /\ op.code # 0
  /\ op.tid.page_id \in DOMAIN disk
  /\ ~VerifyChecksum(disk[op.tid.page_id])
  /\ op.tid.page_id \notin DOMAIN page_cache_
  /\ DOMAIN page_cache_ # {}

\* a call failed on a page absent from the device with the cache full
MissWithFullCache ==
  /\ op.name \in {"Get", "Update", "Delete"} /\ op.code # 0
  /\ op.tid.page_id \notin DOMAIN disk
  /\ Cardinality(DOMAIN page_cache_) = MAX_CACHE_SIZE

\* ---------------------------------------------------------------------------
\* Coordinator-level chain resolution (page_manager.cpp 469-501)
\* ---------------------------------------------------------------------------

\* the slot a resolved tuple-id names holds a tuple: VALID and not FORWARDED
ResolvedSlotUsable(w, tid) ==
  /\ tid.page_id \in DOMAIN w.cache
  /\ IsSlotValid(w.cache[tid.page_id], tid.slot_id)
  /\ ~IsSlotForwarded(w.cache[tid.page_id], tid.slot_id)

\* C28: the tuple-id FollowForwardingChainFull hands to GetTuple, UpdateTuple
\* and DeleteTuple for a tuple-id returned by InsertTuple is the failure
\* result or names a VALID slot without the FORWARDED flag, also when the
\* chain leaves the page it started on.
C28_ChainEndsOnTuple ==
  \A tid \in DOMAIN expect :
    \A f \in FollowForwardingChainFull(W, tid) :
      f.tid # TupleId(0, 0) =>
        \A g \in GetPage(f.w, f.tid.page_id) :
          g.ok => ResolvedSlotUsable(g.w, f.tid)

\* ---------------------------------------------------------------------------
\* Page::ShouldCompact on pages near their capacity (page.cpp 673-702)
\* ---------------------------------------------------------------------------

\* tuple payloads of 4000, 120 and 60 bytes: two of the first leave less than
\* 100 contiguous bytes
ShouldPayloads == { << Run(1, 4000) >>, << Run(2, 120) >>, << Run(3, 60) >> }

SInsert ==
  /\ psteps < MaxPageOps
  /\ \E d \in ShouldPayloads :
       LET r == PageInsertTuple(pg, d, BLen(d))
       IN /\ pg' = r.p
          /\ pop' = [NoOp EXCEPT !.name = "Insert", !.data = d,
                                 !.size = BLen(d), !.res = r.slot]
  /\ ppre' = pg
  /\ psteps' = psteps + 1
  /\ UNCHANGED mvars

ShouldNext == SInsert \/ PDelete \/ PCompact

ShouldSpec == Init /\ [][ShouldNext]_vars

\* free_start - sizeof(PageHeader) and free_end - free_start of the page
UsedSpace(p) == p.free_start - HEADER_SIZE
ContiguousSpace(p) == p.free_end - p.free_start

\* C29 as stated: ShouldCompact returns true exactly when
\* deleted_tuple_count > 0 and fragmented_bytes is at least half of the used
\* space, or deleted_tuple_count is at least half of slot_count, or the
\* contiguous space is below 100 bytes while fragmented_bytes is at least 100.
C29_AsStated ==
  ShouldCompact(pg) <=>
    /\ pg.deleted_tuple_count_ > 0
    /\ \/ 2 * pg.fragmented_bytes_ >= UsedSpace(pg)
       \/ 2 * pg.deleted_tuple_count_ >= pg.slot_count
       \/ /\ ContiguousSpace(pg) < 100
          /\ pg.fragmented_bytes_ >= 100

\* C29 amended: ShouldCompact returns true exactly when
\* deleted_tuple_count > 0 and one of these holds: the used space is not zero
\* and fragmented_bytes is at least half of it, deleted_tuple_count is at
\* least half of slot_count, or the contiguous space is below 100 bytes while
\* contiguous space plus fragmented_bytes is at least 100.
C29_ShouldCompact ==
  ShouldCompact(pg) <=>
    /\ pg.deleted_tuple_count_ > 0
    /\ \/ UsedSpace(pg) > 0 /\ 2 * pg.fragmented_bytes_ >= UsedSpace(pg)
       \/ 2 * pg.deleted_tuple_count_ >= pg.slot_count
       \/ /\ ContiguousSpace(pg) < 100
          /\ ContiguousSpace(pg) + pg.fragmented_bytes_ >= 100

\* a delete left a page that reports true through the third test alone, with
\* fewer than 100 fragmented bytes
C29_Witness ==
  /\ pop.name = "Delete" /\ pop.res = 0
  /\ ShouldCompact(pg)
  /\ 2 * pg.fragmented_bytes_ < UsedSpace(pg)
  /\ 2 * pg.deleted_tuple_count_ < pg.slot_count
  /\ ContiguousSpace(pg) < 100
  /\ pg.fragmented_bytes_ < 100

\* each of the first two tests alone, and no test at all with a deleted tuple
ShouldByFragmentation ==
  /\ ShouldCompact(pg)
  /\ 2 * pg.deleted_tuple_count_ < pg.slot_count
  /\ ContiguousSpace(pg) >= 100

ShouldByDeletedSlots ==
  /\ ShouldCompact(pg)
  /\ 2 * pg.fragmented_bytes_ < UsedSpace(pg)
  /\ ContiguousSpace(pg) >= 100

ShouldNotDespiteDeletion ==
  /\ ~ShouldCompact(pg)
  /\ pg.deleted_tuple_count_ > 0

\* ---------------------------------------------------------------------------
\* Deleting through a forwarding stub (page_manager.cpp 253-290)
\* ---------------------------------------------------------------------------

\* the page image a fetch of page_id would see: the cached page, else the
\* stored one
PageImage(page_id) ==
  IF page_id \in DOMAIN page_cache_ THEN page_cache_[page_id]
  ELSE IF page_id \in DOMAIN disk THEN disk[page_id]
  ELSE CreateNew

\* tid was returned by InsertTuple, its last DeleteTuple succeeded, and its
\* slot is a forwarding stub
DeletedStub(tid) ==
  /\ tid \in DOMAIN expect
  /\ ~expect[tid].live
  /\ IsSlotForwarded(PageImage(tid.page_id), tid.slot_id)

\* C30: once DeleteTuple has succeeded on a tuple-id whose slot is a
\* forwarding stub, every later GetTuple, UpdateTuple and DeleteTuple on that
\* tuple-id fails, whatever calls were made in between.
C30_DeletedStubStaysDeleted ==
  [][ (op'.name \in {"Get", "Update", "Delete"} /\ DeletedStub(op'.tid))
        => op'.code # 0 ]_vars

\* GetTuple on a deleted stub returns the bytes of a tuple that was inserted
\* afterwards under another tuple-id
StubReadsOtherTuple ==
  /\ op.name = "Get" /\ op.code = 0
  /\ DeletedStub(op.tid)
  /\ \E other \in DOMAIN expect :
       other # op.tid /\ expect[other].live /\ expect[other].data = op.data

\* ---------------------------------------------------------------------------
\* Slot lifecycle under the page operations (page.cpp 395-493, 643-822)
\* ---------------------------------------------------------------------------

\* the lifecycle state of slot s of page p
SlotState(p, s) ==
  IF s >= p.slot_count THEN "FREE"
  ELSE IF ~HasFlag(GetSlotEntry(p, s).flags, SLOT_VALID) THEN "DELETED"
  ELSE IF HasFlag(GetSlotEntry(p, s).flags, SLOT_FORWARDED) THEN "FORWARDED"
  ELSE "VALID"

SlotMoves ==
  { << "FREE", "VALID" >>, << "DELETED", "VALID" >>, << "VALID", "DELETED" >>,
    << "VALID", "FORWARDED" >>, << "DELETED", "FREE" >> }

\* C31: under Insert, Delete, UpdateInPlace, MarkForwarded and Compact a slot
\* changes state only by FREE to VALID, DELETED to VALID, VALID to DELETED,
\* VALID to FORWARDED and DELETED to FREE; a FORWARDED slot stays VALID and
\* FORWARDED with length 0, so Delete never turns it into a DELETED slot.
C31_SlotLifecycle ==
  [][ \A s \in 0..MaxPageOps :
        LET before == SlotState(pg, s)
            after == SlotState(pg', s)
        IN /\ before # after => << before, after >> \in SlotMoves
           /\ before = "FORWARDED" =>
                /\ after = "FORWARDED"
                /\ GetSlotEntry(pg', s).length = 0 ]_vars

\* ---------------------------------------------------------------------------
\* Frame condition of the page operations that do not compact
\* ---------------------------------------------------------------------------

\* the slot the last page operation was applied to
OpSlot(o) == IF o.name = "Insert" THEN o.res ELSE o.slot

\* C32: Insert, Delete, UpdateInPlace and MarkForwarded applied to slot s
\* leave the offset, length, flags, forwarding pointer and tuple bytes of
\* every other VALID slot unchanged.
C32_FrameCondition ==
  [][ pop'.name \in {"Insert", "Delete", "UpdateInPlace", "MarkForwarded"} =>
        \A t \in ValidSlots(pg) :
          t # OpSlot(pop') =>
            /\ GetSlotEntry(pg', t) = GetSlotEntry(pg, t)
            /\ SlotBytes(pg', t) = SlotBytes(pg, t) ]_vars

\* an operation succeeded on one slot while another slot held a tuple
C32_Witness ==
  /\ pop.name \in {"Delete", "UpdateInPlace", "MarkForwarded"} /\ pop.res = 0
  /\ \E t \in ValidSlots(ppre) :
       /\ t # pop.slot
       /\ ~IsSlotForwarded(ppre, t)
       /\ GetSlotEntry(ppre, t).length > 0

\* ---------------------------------------------------------------------------
\* FlushAllPages and the runtime fields of resident pages
\* (disk_manager.cpp 202-246, page_manager.cpp 397-426)
\* ---------------------------------------------------------------------------

\* C33: FlushAllPages leaves the slot directory, the tuple bytes,
\* deleted_tuple_count and fragmented_bytes of every cached page as they were,
\* so ShouldCompact gives the same answer after the flush as before.
C33_FlushKeepsCounters ==
  [][ op'.name = "Flush" =>
        \A page_id \in DOMAIN page_cache_ :
          /\ page_id \in DOMAIN page_cache_'
          /\ page_cache_'[page_id].slots = page_cache_[page_id].slots
          /\ page_cache_'[page_id].data = page_cache_[page_id].data
          /\ page_cache_'[page_id].deleted_tuple_count_ =
               page_cache_[page_id].deleted_tuple_count_
          /\ page_cache_'[page_id].fragmented_bytes_ =
               page_cache_[page_id].fragmented_bytes_
          /\ ShouldCompact(page_cache_'[page_id]) =
               ShouldCompact(page_cache_[page_id]) ]_vars

\* after a flush, an insert that reused a deleted slot left a counter below
\* zero (deleted_tuple_count wrapped to 65535, or fragmented_bytes negative)
CounterWrapped ==
  \E page_id \in DOMAIN page_cache_ :
    \/ page_cache_[page_id].deleted_tuple_count_ = UINT16_MOD - 1
    \/ page_cache_[page_id].fragmented_bytes_ < 0

\* ---------------------------------------------------------------------------
\* UpdateTuple on a deleted tuple-id (page_manager.cpp 168-250)
\* ---------------------------------------------------------------------------

\* C34: UpdateTuple on a tuple-id that InsertTuple returned and whose last
\* DeleteTuple succeeded returns an error, and GetTuple on it still fails
\* afterwards, whether the deleted version lived on the page of the original
\* slot or on the page an earlier update had forwarded it to.
C34_UpdateAfterDelete ==
  [][ (/\ op'.name = "Update"
       /\ op'.tid \in DOMAIN expect
       /\ ~expect[op'.tid].live)
        => (op'.code # 0 /\ GetFails(WNext, op'.tid)) ]_vars

\* ---------------------------------------------------------------------------
\* Failed UpdateTuple calls (page_manager.cpp 154-251)
\* ---------------------------------------------------------------------------

\* the results GetTuple(tid) can give on world w: (code, bytes)
GetResults(w, tid) ==
  { [code |-> out.code, bytes |-> out.bytes] :
      out \in GetTuple(w, tid, BigBuffer) }

\* C35: if UpdateTuple(T, y) returns an error, a following GetTuple(T) gives
\* the same result (the same bytes, or the same error) as it would have given
\* before the call.
C35_FailedUpdateKeepsValue ==
  [][ (op'.name = "Update" /\ op'.code # 0)
        => GetResults(WNext, op'.tid) = GetResults(W, op'.tid) ]_vars

\* a full cache of written pages after one more InsertTuple(SmallTuple) for
\* which the map suggested page 1: the outcome of InsertTuple's first attempt
\* with tuple-id (1, 1)
EvictWorld ==
  LET w0 == FlushAllPages(CacheWorld(MAX_CACHE_SIZE)).w
      r1 == PageInsertTuple(w0.cache[1], SmallTuple, BLen(SmallTuple))
  IN UpdateFSM(PutCache(w0, 1, r1.p), 1)

\* a new version no page can take: 8150 bytes and a slot entry exceed a page
HugeTuple == <<Run(7, 8150)>>

EvictTids == {TupleId(1, 0), TupleId(1, 1)}

EvictInit ==
  /\ PInit
  /\ page_cache_ = EvictWorld.cache
  /\ disk = EvictWorld.disk
  /\ next_page_id_ = EvictWorld.next
  /\ fsm = EvictWorld.fsm
  /\ fsm_file = EvictWorld.file
  /\ cache_peak = MAX_CACHE_SIZE
  /\ cache_lost = {}
  /\ op = [NoCall EXCEPT !.name = "Insert", !.tid = TupleId(1, 1),
                         !.data = SmallTuple]
  /\ steps = 0
  /\ expect = <<>>
  /\ fsm_last = <<>>
  /\ fsm2 = NotConstructed
  /\ DMInit

EvictUpdate ==
  /\ steps < 2
  /\ \E tid \in EvictTids : \E out \in UpdateTuple(W, tid, HugeTuple, BLen(HugeTuple)) :
       /\ SetWorld(out.w)
       /\ op' = Call("Update", tid, HugeTuple, out.code, out.path)
  /\ steps' = steps + 1
  /\ UNCHANGED << expect, pvars, fvars, dvars >>

EvictGet ==
  /\ steps < 2
  /\ \E tid \in EvictTids : \E out \in GetTuple(W, tid, BigBuffer) :
       /\ SetWorld(out.w)
       /\ op' = Call("Get", tid, out.bytes, out.code, "none")
  /\ steps' = steps + 1
  /\ UNCHANGED << expect, pvars, fvars, dvars >>

EvictNext == EvictUpdate \/ EvictGet

EvictSpec == EvictInit /\ [][EvictNext]_vars

\* ---------------------------------------------------------------------------
\* Tuple versions no tuple-id reaches (page_manager.cpp 198-250)
\* ---------------------------------------------------------------------------

\* the image of page_id in world w: the cached page, else the stored one
ImageIn(w, page_id) ==
  IF page_id \in DOMAIN w.cache THEN w.cache[page_id] ELSE w.disk[page_id]

\* the (page, slot) pairs of world w that hold a tuple version: VALID and not
\* FORWARDED
VersionSlots(w) ==
  { t \in [page_id : DOMAIN w.cache \cup DOMAIN w.disk,
            slot_id : 0..(MaxOps - 1)] :
      /\ IsSlotValid(ImageIn(w, t.page_id), t.slot_id)
      /\ ~IsSlotForwarded(ImageIn(w, t.page_id), t.slot_id) }

\* the versions of w that no live tuple-id of ghost e resolves to
Orphans(w, e) ==
  { t \in VersionSlots(w) :
      \A tid \in {x \in DOMAIN e : e[x].live} :
        \A f \in FollowForwardingChainFull(w, tid) : f.tid # t }

\* C36: a successful coordinator operation leaves no tuple version that no
\* live tuple-id resolves to: if every VALID non-forwarded slot was the
\* resolution target of a tuple-id returned by InsertTuple and not deleted
\* before the operation, the same holds after it.
C36_NoOrphanVersions ==
  [][ (op'.code = 0 /\ Orphans(W, expect) = {})
        => Orphans(WNext, expect') = {} ]_vars

\* ---------------------------------------------------------------------------
\* The forwarding pointer written by UpdateTuple's spill path
\* (page.cpp 342-393, page_manager.cpp 219-240)
\* ---------------------------------------------------------------------------

\* the slots that hold a tuple version after the step and did not hold that
\* same entry before it: where the step inserted
InsertedSlots ==
  { t \in [page_id : DOMAIN page_cache_', slot_id : 0..(DenseFill + MaxOps)] :
      /\ IsSlotValid(page_cache_'[t.page_id], t.slot_id)
      /\ ~IsSlotForwarded(page_cache_'[t.page_id], t.slot_id)
      /\ \/ ~IsSlotValid(PageImage(t.page_id), t.slot_id)
         \/ GetSlotEntry(PageImage(t.page_id), t.slot_id)
              # GetSlotEntry(page_cache_'[t.page_id], t.slot_id) }

\* C37: after UpdateTuple took the spill path and succeeded, the forwarding
\* pointer of the original slot decodes to exactly the page-id and slot-id
\* at which the new version was inserted, also for slot-ids above 255.
C37_PointerDecodes ==
  [][ (op'.name = "Update" /\ op'.code = 0 /\ op'.path = "spill")
        => /\ InsertedSlots # {}
           /\ \A t \in InsertedSlots :
                GetForwardingPointer(page_cache_'[op'.tid.page_id],
                                     op'.tid.slot_id) = t ]_vars

\* ------------------------------------------------------------------------
\* LockSpec: the order in which the threads take the three mutexes
\* ------------------------------------------------------------------------
\* calls each thread makes
LockCallsPerThread == 1

\* a function body that holds std::lock_guard<std::mutex> on mutex m while
\* it executes body: the lock events of the call, in program order
LockGuard(m, body) ==
  << [a |-> "lock", m |-> m] >> \o body \o << [a |-> "unlock", m |-> m] >>

\* every sequence of S followed by every sequence of T
Cat(S, T) == {s \o t : s \in S, t \in T}

\* every body of S executed under a lock_guard on m
Under(m, S) == {LockGuard(m, s) : s \in S}

\* FreeSpaceMap::Initialize, UpdatePageFreeSpace, FindPageWithSpace and Flush
\* lock fsm_mutex_ and call only LoadFromDisk, WriteToDisk, EnsureCapacity and
\* BytesToCategory, none of which takes a lock
FsmCallLocks == Under("fsm_mutex_", {<<>>})

\* DiskManager::AllocatePage locks metadata_mutex_ and calls nothing that locks
AllocatePageLocks == Under("metadata_mutex_", {<<>>})

\* PageManager::FindPageWithSpace: fsm_->FindPageWithSpace, no lock of its own
FindPageWithSpaceLocks == FsmCallLocks

\* PageManager::UpdateFSM: fsm_->UpdatePageFreeSpace, no lock of its own
UpdateFSMLocks == FsmCallLocks

\* PageManager::AllocateNewPage: disk_manager_->AllocatePage, and UpdateFSM
\* when an id was returned
AllocateNewPageLocks == Cat(AllocatePageLocks, UpdateFSMLocks)

\* PageManager::FlushAllPagesInternal: FlushPage and DiskManager::WritePage
\* take no lock; fsm_->Flush() unless a page could not be written
FlushAllPagesInternalLocks == {<<>>} \cup FsmCallLocks

\* one pass of InsertTuple's loop up to page->InsertTuple: a page is found,
\* or none is and one is allocated
PlaceLocks == Cat(FindPageWithSpaceLocks, {<<>>} \cup AllocateNewPageLocks)

\* n passes of the loop that did not insert: each ends with
\* fsm_->UpdatePageFreeSpace(page_id, 0)
RECURSIVE FailedAttempts(_)
FailedAttempts(n) ==
  IF n = 0 THEN {<<>>}
  ELSE Cat(Cat(PlaceLocks, FsmCallLocks), FailedAttempts(n - 1))

\* PageManager::InsertTuple under cache_mutex_: bad arguments; up to two
\* failed passes and then an insertion followed by UpdateFSM, a failed
\* allocation or a page that could not be read; three failed passes
InsertTupleLocks ==
  Under("cache_mutex_",
        {<<>>}
        \cup UNION {Cat(FailedAttempts(k), Cat(PlaceLocks, UpdateFSMLocks))
                    : k \in 0..2}
        \cup UNION {Cat(FailedAttempts(k),
                        Cat(FindPageWithSpaceLocks, AllocatePageLocks))
                    : k \in 0..2}
        \cup UNION {Cat(FailedAttempts(k), FindPageWithSpaceLocks)
                    : k \in 0..2}
        \cup FailedAttempts(3))

\* PageManager::GetTuple under cache_mutex_: the chain walk and GetPage take
\* no lock
GetTupleLocks == Under("cache_mutex_", {<<>>})

\* PageManager::UpdateTuple under cache_mutex_: an early return; the update in
\* place and UpdateFSM; a failed allocation; a return after the new page was
\* chosen; the relocation and its two UpdateFSM calls
UpdateTupleLocks ==
  Under("cache_mutex_",
        {<<>>}
        \cup UpdateFSMLocks
        \cup Cat(FindPageWithSpaceLocks, AllocatePageLocks)
        \cup PlaceLocks
        \cup Cat(PlaceLocks, Cat(UpdateFSMLocks, UpdateFSMLocks)))

\* PageManager::DeleteTuple under cache_mutex_: a failure, or UpdateFSM
DeleteTupleLocks == Under("cache_mutex_", {<<>>} \cup UpdateFSMLocks)

\* PageManager::CompactPage under cache_mutex_: nothing to compact, or
\* UpdateFSM after the compaction
CompactPageLocks == Under("cache_mutex_", {<<>>} \cup UpdateFSMLocks)

\* PageManager::FlushAllPages: cache_mutex_, then FlushAllPagesInternal
FlushAllPagesLocks == Under("cache_mutex_", FlushAllPagesInternalLocks)

\* variant: ClearCache flushes through the public FlushAllPages
ClearCacheLocks_ViaFlushAllPages == Under("cache_mutex_", FlushAllPagesLocks)

\* PageManager::ClearCache: cache_mutex_, then FlushAllPagesInternal
ClearCacheLocks == Under("cache_mutex_", FlushAllPagesInternalLocks)

\* PageManager::GetCacheSize under cache_mutex_
GetCacheSizeLocks == Under("cache_mutex_", {<<>>})

\* the lock events a call can produce. ~PageManager calls FlushAllPages while
\* it holds nothing; the constructor calls fsm_->Initialize() the same way;
\* AllocatePage is DiskManager::AllocatePage called by a client directly
LockScripts(name) ==
  CASE name = "InsertTuple" -> InsertTupleLocks
    [] name = "GetTuple" -> GetTupleLocks
    [] name = "UpdateTuple" -> UpdateTupleLocks
    [] name = "DeleteTuple" -> DeleteTupleLocks
    [] name = "CompactPage" -> CompactPageLocks
    [] name = "FlushAllPages" -> FlushAllPagesLocks
    [] name = "ClearCache" -> ClearCacheLocks
    [] name = "GetCacheSize" -> GetCacheSizeLocks
    [] name = "~PageManager" -> FlushAllPagesLocks
    [] name = "PageManager" -> FsmCallLocks
    [] name = "AllocatePage" -> AllocatePageLocks

LockCallNames ==
  {"InsertTuple", "GetTuple", "UpdateTuple", "DeleteTuple", "CompactPage",
   "FlushAllPages", "ClearCache", "GetCacheSize", "~PageManager",
   "PageManager", "AllocatePage"}

\* the holder of the named mutex, 0 when it is free
MutexHolder(m) ==
  CASE m = "cache_mutex_" -> cache_mutex_
    [] m = "fsm_mutex_" -> fsm_mutex_
    [] m = "metadata_mutex_" -> metadata_mutex_

\* the named mutex gets holder h, the other two keep theirs
SetMutex(m, h) ==
  /\ cache_mutex_' = IF m = "cache_mutex_" THEN h ELSE cache_mutex_
  /\ fsm_mutex_' = IF m = "fsm_mutex_" THEN h ELSE fsm_mutex_
  /\ metadata_mutex_' = IF m = "metadata_mutex_" THEN h ELSE metadata_mutex_

\* the mutexes thread t holds
HeldBy(t) ==
  {m \in {"cache_mutex_", "fsm_mutex_", "metadata_mutex_"} : MutexHolder(m) = t}

LockFrame ==
  UNCHANGED << page_cache_, cache_peak, cache_lost, disk, next_page_id_, fsm,
               fsm_file, op, steps, expect, fvars, file_header_, db_file,
               dm_ids, lin_world, pvars >>

\* thread t enters a method; which branches the call takes is open
LCall(t) ==
  /\ th_pc[t].pc = "idle"
  /\ Len(th_ret[t]) < LockCallsPerThread
  /\ \E name \in LockCallNames : \E script \in LockScripts(name) :
       th_pc' = [th_pc EXCEPT ![t] = [pc |-> "run", call |-> name,
                                      todo |-> script]]
  /\ UNCHANGED << cache_mutex_, fsm_mutex_, metadata_mutex_, th_ret >>
  /\ LockFrame

\* std::lock_guard<std::mutex> lock(m): the thread waits until the mutex is
\* free; std::mutex is not recursive, its own holder waits as well
LLock(t) ==
  /\ th_pc[t].pc = "run"
  /\ th_pc[t].todo # <<>>
  /\ Head(th_pc[t].todo).a = "lock"
  /\ LockAvailable(MutexHolder(Head(th_pc[t].todo).m))
  /\ SetMutex(Head(th_pc[t].todo).m, t)
  /\ th_pc' = [th_pc EXCEPT ![t].todo = Tail(@)]
  /\ UNCHANGED th_ret
  /\ LockFrame

\* the lock_guard goes out of scope
LUnlock(t) ==
  /\ th_pc[t].pc = "run"
  /\ th_pc[t].todo # <<>>
  /\ Head(th_pc[t].todo).a = "unlock"
  /\ SetMutex(Head(th_pc[t].todo).m, 0)
  /\ th_pc' = [th_pc EXCEPT ![t].todo = Tail(@)]
  /\ UNCHANGED th_ret
  /\ LockFrame

\* the method returns to its caller
LReturn(t) ==
  /\ th_pc[t].pc = "run"
  /\ th_pc[t].todo = <<>>
  /\ th_ret' = [th_ret EXCEPT ![t] = Append(@, "returned")]
  /\ th_pc' = [th_pc EXCEPT ![t] = [pc |-> "idle", call |-> "none",
                                    todo |-> <<>>]]
  /\ UNCHANGED << cache_mutex_, fsm_mutex_, metadata_mutex_ >>
  /\ LockFrame

LockNext ==
  \E t \in Threads : LCall(t) \/ LLock(t) \/ LUnlock(t) \/ LReturn(t)

LockSpec == Init /\ [][LockNext]_vars

\* a thread inside a method keeps running: the scheduler does not stop a
\* thread that can take a step for ever. A thread need not make a call.
LockLiveSpec ==
  LockSpec /\ \A t \in Threads : WF_vars(LLock(t) \/ LUnlock(t) \/ LReturn(t))

\* thread t is about to construct a lock_guard on mutex m
Acquiring(t, m) ==
  /\ th_pc[t].pc = "run"
  /\ th_pc[t].todo # <<>>
  /\ Head(th_pc[t].todo) = [a |-> "lock", m |-> m]

\* cache_mutex_ is requested by threads that hold nothing; fsm_mutex_ and
\* metadata_mutex_ by threads that hold nothing or cache_mutex_ alone
LockOrder ==
  \A t \in Threads :
    /\ Acquiring(t, "cache_mutex_") => HeldBy(t) = {}
    /\ (Acquiring(t, "fsm_mutex_") \/ Acquiring(t, "metadata_mutex_"))
         => HeldBy(t) \subseteq {"cache_mutex_"}

\* C38: no thread requests cache_mutex_ while it holds a mutex, fsm_mutex_ and
\* metadata_mutex_ are requested only by threads holding nothing or
\* cache_mutex_ alone, and every call a thread has entered returns
C38_NoDeadlock ==
  /\ []LockOrder
  /\ \A t \in Threads : (th_pc[t].pc = "run") ~> (th_pc[t].pc = "idle")

\* thread 1 is in ClearCache holding cache_mutex_ and fsm_mutex_ while thread
\* 2 waits for cache_mutex_ in InsertTuple
C38_Witness ==
  /\ th_pc[1].pc = "run" /\ th_pc[1].call = "ClearCache"
  /\ HeldBy(1) = {"cache_mutex_", "fsm_mutex_"}
  /\ th_pc[2].pc = "run" /\ th_pc[2].call = "InsertTuple"
  /\ Acquiring(2, "cache_mutex_")

\* C39: on a block device that allocates, reads and writes, InsertTuple with
\* data of 1 .. PAGE_SIZE - HEADER_SIZE - SLOT_ENTRY_SIZE bytes returns a
\* valid tuple-id, whatever free space the existing pages have
C39_InsertAlwaysPlaces ==
  (op.name = "Insert" /\ op.why \notin {"argument", "fetch"}) =>
    op.tid # InvalidTupleId

\* C40: after every coordinator call, every page of the map's allocated set
\* that the cache or the file holds has a stored category of at most
\* BytesToCategory(free_end - free_start) of its current contents
C40_NoOverReport ==
  \A page_id \in fsm.allocated :
    page_id \in DOMAIN page_cache_ \cup DOMAIN disk =>
      GetCategory(fsm, page_id) <=
        BytesToCategory(GetAvailableFreeSpace(PageImage(page_id)))

====
